---- MODULE Spec2Model ----
(***************************************************************************)
(* A model of gyaml: the path query engine over YAML text.                 *)
(*                                                                         *)
(* Text (documents, paths, raw fragments) is a sequence of one-character   *)
(* strings, so that the byte-level scanning of fast_parser.go and of       *)
(* parsePath is modelled as the code does it.  Numbers are integers: the   *)
(* documents of the model hold no fractional or exponent numerals.         *)
(***************************************************************************)
EXTENDS Integers, Sequences, FiniteSets, TLC

VARIABLES yaml, path, result, trail, pc, modifiers, calls

vars == <<yaml, path, result, trail, pc, modifiers, calls>>

-----------------------------------------------------------------------------
(* Characters.                                                             *)

NL == "\n"
DQ == "\""
SQ == "'"
BSL == "\\"

Digits == {"0", "1", "2", "3", "4", "5", "6", "7", "8", "9"}

\* Bytes in increasing byte order (the part of ASCII the model uses).
Ascii ==
  <<"\t", "\n", "\r", " ", "!", "\"", "#", "%", "'", "(", ")", "*", "+", ",",
    "-", ".", "/", "0", "1", "2", "3", "4", "5", "6", "7", "8", "9", ":",
    "<", "=", ">", "?", "@", "A", "B", "C", "D", "E", "F", "G", "H", "I",
    "J", "K", "L", "M", "N", "O", "P", "Q", "R", "S", "T", "U", "V", "W",
    "X", "Y", "Z", "[", "\\", "]", "_", "a", "b", "c", "d", "e", "f", "g",
    "h", "i", "j", "k", "l", "m", "n", "o", "p", "q", "r", "s", "t", "u",
    "v", "w", "x", "y", "z", "{", "|", "}", "~">>

Code(c) == CHOOSE i \in 1..Len(Ascii) : Ascii[i] = c

Upper == <<"A", "B", "C", "D", "E", "F", "G", "H", "I", "J", "K", "L", "M",
           "N", "O", "P", "Q", "R", "S", "T", "U", "V", "W", "X", "Y", "Z">>
Lower == <<"a", "b", "c", "d", "e", "f", "g", "h", "i", "j", "k", "l", "m",
           "n", "o", "p", "q", "r", "s", "t", "u", "v", "w", "x", "y", "z">>

LowerChar(c) ==
  IF \E i \in 1..Len(Upper) : Upper[i] = c
  THEN Lower[CHOOSE i \in 1..Len(Upper) : Upper[i] = c]
  ELSE c

DigitVal(c) == Code(c) - Code("0")
DigitChar(d) == Ascii[Code("0") + d]

-----------------------------------------------------------------------------
(* The Go library functions the code calls, on texts.                      *)

\* v := e, and the statements that read v.
With(v, F(_)) == F(v)

IsSpace(c) == c \in {" ", "\t", "\n", "\r"}

\* Index of the first / last element of s outside set (Len+1 / 0 if none).
FirstOutside(s, set) ==
  IF \E i \in 1..Len(s) : s[i] \notin set
  THEN CHOOSE i \in 1..Len(s) : s[i] \notin set /\ \A j \in 1..(i-1) : s[j] \in set
  ELSE Len(s) + 1

LastOutside(s, set) ==
  IF \E i \in 1..Len(s) : s[i] \notin set
  THEN CHOOSE i \in 1..Len(s) : s[i] \notin set /\ \A j \in (i+1)..Len(s) : s[j] \in set
  ELSE 0

\* strings.Trim(s, cutset)
Trim(s, cutset) == SubSeq(s, FirstOutside(s, cutset), LastOutside(s, cutset))

\* strings.TrimSpace(s)
TrimSpace(s) == Trim(s, {" ", "\t", "\n", "\r"})

\* strings.TrimLeft(s, cutset)
TrimLeft(s, cutset) == SubSeq(s, FirstOutside(s, cutset), Len(s))

\* strings.HasPrefix, strings.HasSuffix
HasPrefix(s, p) == Len(p) <= Len(s) /\ SubSeq(s, 1, Len(p)) = p
HasSuffix(s, p) == Len(p) <= Len(s) /\ SubSeq(s, Len(s) - Len(p) + 1, Len(s)) = p

\* strings.Index(s, sub): the 0-based offset of the first occurrence, or -1.
Index(s, sub) ==
  LET hit(i) == SubSeq(s, i + 1, i + Len(sub)) = sub
      last == Len(s) - Len(sub)
  IN IF \E i \in 0..last : hit(i)
     THEN CHOOSE i \in 0..last : hit(i) /\ \A j \in 0..(i-1) : ~hit(j)
     ELSE -1

\* strings.Contains, strings.ContainsAny
Contains(s, sub) == Index(s, sub) # -1
ContainsAny(s, set) == \E i \in 1..Len(s) : s[i] \in set

\* strings.ToLower
ToLower(s) == [i \in 1..Len(s) |-> LowerChar(s[i])]

\* strings.Split(s, sep) for a one-byte separator.
RECURSIVE Split(_, _)
Split(s, sep) ==
  LET i == Index(s, <<sep>>)
  IN IF i = -1 THEN <<s>>
     ELSE <<SubSeq(s, 1, i)>> \o Split(SubSeq(s, i + 2, Len(s)), sep)

\* strings.Join(list, sep)
RECURSIVE Join(_, _)
Join(list, sep) ==
  IF list = <<>> THEN <<>>
  ELSE IF Len(list) = 1 THEN list[1]
  ELSE list[1] \o sep \o Join(Tail(list), sep)

\* strings.Repeat(" ", n)
Spaces(n) == [i \in 1..n |-> " "]

AllDigits(s) == s # <<>> /\ \A i \in 1..Len(s) : s[i] \in Digits

RECURSIVE DigitsVal(_)
DigitsVal(s) == IF s = <<>> THEN 0 ELSE 10 * DigitsVal(SubSeq(s, 1, Len(s) - 1)) + DigitVal(s[Len(s)])

\* strconv.Atoi(s): an optional sign and decimal digits; err otherwise.
AtoiOk(s) ==
  IF s # <<>> /\ s[1] \in {"-", "+"} THEN AllDigits(Tail(s)) ELSE AllDigits(s)
AtoiVal(s) ==
  IF s[1] = "-" THEN 0 - DigitsVal(Tail(s))
  ELSE IF s[1] = "+" THEN DigitsVal(Tail(s))
  ELSE DigitsVal(s)

\* strconv.ParseFloat(s, 64), on the numerals of the model (integers).
ParseFloatOk(s) == AtoiOk(s)
ParseFloatVal(s) == AtoiVal(s)

\* strconv.Itoa(n), strconv.FormatInt(n, 10)
RECURSIVE NatStr(_)
NatStr(n) == IF n < 10 THEN <<DigitChar(n)>> ELSE NatStr(n \div 10) \o <<DigitChar(n % 10)>>
Itoa(n) == IF n < 0 THEN <<"-">> \o NatStr(0 - n) ELSE NatStr(n)

\* Byte-wise lexicographic order on texts (Go's < on strings).
RECURSIVE StrLess(_, _)
StrLess(a, b) ==
  IF b = <<>> THEN FALSE
  ELSE IF a = <<>> THEN TRUE
  ELSE IF a[1] = b[1] THEN StrLess(Tail(a), Tail(b))
  ELSE Code(a[1]) < Code(b[1])

-----------------------------------------------------------------------------
(* Parsed values: what yaml.Unmarshal stores in an interface{}.            *)
(*   t = "null" | "bool" | "num" | "str" | "seq" | "map" | "omap"          *)
(* n is the number (1/0 for a bool), s the string, kids the elements of a  *)
(* sequence (k empty) or the entries of a mapping in increasing key order  *)
(* (a Go map has no order of its own).  "omap" is a mapping with a key     *)
(* that is no string, which Unmarshal stores as map[interface{}]...        *)

NullV == [t |-> "null", n |-> 0, s |-> <<>>, kids |-> <<>>]
BoolV(b) == [t |-> "bool", n |-> IF b THEN 1 ELSE 0, s |-> <<>>, kids |-> <<>>]
NumV(i) == [t |-> "num", n |-> i, s |-> <<>>, kids |-> <<>>]
StrV(x) == [t |-> "str", n |-> 0, s |-> x, kids |-> <<>>]
SeqV(items) ==
  [t |-> "seq", n |-> 0, s |-> <<>>,
   kids |-> [i \in 1..Len(items) |-> [k |-> <<>>, v |-> items[i]]]]

\* Insertion of an entry into a key-sorted entry list.
RECURSIVE InsertKid(_, _)
InsertKid(kids, e) ==
  IF kids = <<>> THEN <<e>>
  ELSE IF StrLess(e.k, kids[1].k) THEN <<e>> \o kids
  ELSE <<kids[1]>> \o InsertKid(Tail(kids), e)

RECURSIVE SortKids(_)
SortKids(kids) ==
  IF kids = <<>> THEN <<>> ELSE InsertKid(SortKids(Tail(kids)), kids[1])

MapV(entries) == [t |-> "map", n |-> 0, s |-> <<>>, kids |-> SortKids(entries)]

Items(v) == [i \in 1..Len(v.kids) |-> v.kids[i].v]
HasKey(v, k) == \E i \in 1..Len(v.kids) : v.kids[i].k = k
Lookup(v, k) == v.kids[CHOOSE i \in 1..Len(v.kids) : v.kids[i].k = k].v

-----------------------------------------------------------------------------
(* yaml.Unmarshal, for the block and flow YAML the model's texts use:      *)
(* block mappings and sequences at any indentation (a sequence may sit at  *)
(* the indentation of its key), one-line flow sequences and mappings of    *)
(* scalars, plain and quoted scalars, comments.  The result is             *)
(* [err |-> TRUE] for a text the parser rejects.                           *)

ErrV == [err |-> TRUE, v |-> NullV]
OkV(v) == [err |-> FALSE, v |-> v]

\* The number of unescaped quote characters q in s.
CountChar(s, q) == Cardinality({i \in 1..Len(s) : s[i] = q})

\* A line's content without its trailing comment: a '#' at the start or
\* after a blank, outside quotes.
StripComment(s) ==
  LET starts(i) == /\ s[i] = "#"
                   /\ (i = 1 \/ s[i-1] \in {" ", "\t"})
                   /\ CountChar(SubSeq(s, 1, i - 1), DQ) % 2 = 0
                   /\ CountChar(SubSeq(s, 1, i - 1), SQ) % 2 = 0
  IN IF \E i \in 1..Len(s) : starts(i)
     THEN SubSeq(s, 1, (CHOOSE i \in 1..Len(s) : starts(i) /\ \A j \in 1..(i-1) : ~starts(j)) - 1)
     ELSE s

\* The lines of a text that hold content: [ind |-> indentation, s |-> content].
RECURSIVE ContentLines(_)
ContentLines(lines) ==
  IF lines = <<>> THEN <<>>
  ELSE LET raw == lines[1]
           body == TrimSpace(StripComment(TrimLeft(raw, {" "})))
           ind == FirstOutside(raw, {" "}) - 1
       IN IF body = <<>> THEN ContentLines(Tail(lines))
          ELSE <<[ind |-> ind, s |-> body]>> \o ContentLines(Tail(lines))

IsDash(s) == s = <<"-">> \/ HasPrefix(s, <<"-", " ">>)
DashRest(s) == TrimSpace(Tail(s))

\* "key: rest" or "key:"; the key is plain or quoted.  KeyEnd is the length
\* of the key as written, -1 when the line is no mapping entry.
KeyEnd(s) ==
  IF s[1] \in {DQ, SQ}
  THEN LET j == Index(Tail(s), <<s[1]>>) + 2
       IN IF j >= 2 /\ j < Len(s) /\ s[j+1] = ":" /\ (j + 1 = Len(s) \/ s[j+2] = " ")
          THEN j ELSE -1
  ELSE LET i == Index(s, <<":", " ">>)
       IN IF i # -1 THEN i ELSE IF s[Len(s)] = ":" THEN Len(s) - 1 ELSE -1
IsKeyLine(s) == /\ s[1] \notin {"[", "{"}
                /\ KeyEnd(s) > 0
RawKey(s) == TrimSpace(SubSeq(s, 1, KeyEnd(s)))
\* A key without its quotes.
Unquote(k) == IF k[1] \in {DQ, SQ} THEN SubSeq(k, 2, Len(k) - 1) ELSE k
KeyRest(s) == TrimSpace(SubSeq(s, KeyEnd(s) + 2, Len(s)))

\* Resolution of a plain scalar (yaml.v3 resolve): YAML 1.2 core schema; the
\* YAML 1.1 booleans yes/no/on/off stay strings in an interface{}.
ResolvePlain(s) ==
  IF s \in {<<"n","u","l","l">>, <<"N","u","l","l">>, <<"N","U","L","L">>, <<"~">>}
  THEN NullV
  ELSE IF s \in {<<"t","r","u","e">>, <<"T","r","u","e">>, <<"T","R","U","E">>}
  THEN BoolV(TRUE)
  ELSE IF s \in {<<"f","a","l","s","e">>, <<"F","a","l","s","e">>, <<"F","A","L","S","E">>}
  THEN BoolV(FALSE)
  ELSE IF AtoiOk(s) THEN NumV(AtoiVal(s))
  ELSE StrV(s)

\* A one-line scalar.
ParseScalar(s) ==
  IF s = <<>> THEN OkV(NullV)
  ELSE IF s[1] \in {DQ, SQ}
  THEN IF Len(s) >= 2 /\ s[Len(s)] = s[1] /\ CountChar(s, s[1]) = 2 /\ BSL \notin {s[i] : i \in 1..Len(s)}
       THEN OkV(StrV(SubSeq(s, 2, Len(s) - 1)))
       ELSE ErrV
  ELSE IF s[1] \in {"[", "]", "{", "}", ",", "&", "*", "!", "|", ">", "%", "@"}
  THEN ErrV
  ELSE IF Contains(s, <<":", " ">>) \/ s[Len(s)] = ":"
  THEN ErrV
  ELSE OkV(ResolvePlain(s))

\* The entries of a flow collection's inside, split at commas and trimmed.
\* A comma before the closing bracket ends the last entry.
FlowParts(inner) ==
  With(Split(inner, ","), LAMBDA parts :
  With(IF Len(parts) > 1 /\ TrimSpace(parts[Len(parts)]) = <<>> THEN Len(parts) - 1
       ELSE Len(parts), LAMBDA n :
    [i \in 1..n |-> TrimSpace(parts[i])]))

ParseFlowSeq(s) ==
  IF Len(s) < 2 \/ s[Len(s)] # "]" THEN ErrV
  ELSE With(TrimSpace(SubSeq(s, 2, Len(s) - 1)), LAMBDA inner :
       With(FlowParts(inner), LAMBDA parts :
       With([i \in 1..Len(parts) |-> ParseScalar(parts[i])], LAMBDA vals :
         IF inner = <<>> THEN OkV(SeqV(<<>>))
         ELSE IF \E i \in 1..Len(parts) :
                    parts[i] = <<>> \/ parts[i][1] \in {"[", "{"} \/ vals[i].err
         THEN ErrV
         ELSE OkV(SeqV([i \in 1..Len(parts) |-> vals[i].v])))))

\* The type of a mapping: "omap" when a key resolves to a non-string.
MapType(keys) ==
  IF \E i \in 1..Len(keys) : keys[i][1] \notin {DQ, SQ} /\ ResolvePlain(keys[i]).t # "str"
  THEN "omap" ELSE "map"

\* The mapping of the entries [raw |-> the key as written, val |-> the
\* parsed value]: none when a value is none or a key comes twice.
MapOf(es) ==
  With([i \in 1..Len(es) |-> Unquote(es[i].raw)], LAMBDA keys :
    IF \E i \in 1..Len(es) : es[i].val.err THEN ErrV
    ELSE IF \E i, j \in 1..Len(es) : i # j /\ keys[i] = keys[j] THEN ErrV
    ELSE OkV([MapV([i \in 1..Len(es) |-> [k |-> keys[i], v |-> es[i].val.v]])
              EXCEPT !.t = MapType([i \in 1..Len(es) |-> es[i].raw])]))

ParseFlowMap(s) ==
  LET ok(p) == With(KeyRest(p), LAMBDA rest : rest # <<>> /\ rest[1] \notin {"[", "{"})
  IN IF Len(s) < 2 \/ s[Len(s)] # "}" THEN ErrV
     ELSE With(TrimSpace(SubSeq(s, 2, Len(s) - 1)), LAMBDA inner :
          With(FlowParts(inner), LAMBDA parts :
            IF inner = <<>> THEN OkV(MapV(<<>>))
            ELSE IF \E i \in 1..Len(parts) :
                       parts[i] = <<>> \/ ~IsKeyLine(parts[i]) \/ ~ok(parts[i])
            THEN ErrV
            ELSE MapOf([i \in 1..Len(parts) |->
                          [raw |-> RawKey(parts[i]),
                           val |-> ParseScalar(KeyRest(parts[i]))]])))

\* A value written on one line.
ParseInline(s) ==
  IF s[1] = "[" THEN ParseFlowSeq(s)
  ELSE IF s[1] = "{" THEN ParseFlowMap(s)
  ELSE ParseScalar(s)

\* The positions in L, after position i, up to the next line at indentation
\* n that starts a new entry.
GroupEnd(L, starts, i) ==
  IF \E j \in starts : j > i
  THEN (CHOOSE j \in starts : j > i /\ \A k \in starts : k > i => j <= k) - 1
  ELSE Len(L)

\* The elements of a set of positions in increasing order.
RECURSIVE SortedStarts(_)
SortedStarts(S) ==
  IF S = {} THEN <<>>
  ELSE LET m == CHOOSE x \in S : \A y \in S : x <= y
       IN <<m>> \o SortedStarts(S \ {m})

RECURSIVE ParseLines(_)
RECURSIVE ParseSeqLines(_, _)
RECURSIVE ParseMapLines(_, _)

\* A block sequence at indentation n: one group of lines per "- ".
ParseSeqLines(L, n) ==
  LET starts == {i \in 1..Len(L) : L[i].ind = n}
  IN IF \E i \in starts : ~IsDash(L[i].s) THEN ErrV
     ELSE With(SortedStarts(starts), LAMBDA order :
          With([j \in 1..Len(order) |->
                  With(order[j], LAMBDA i :
                  With(DashRest(L[i].s), LAMBDA rest :
                    ParseLines((IF rest = <<>> THEN <<>>
                                ELSE <<[ind |-> n + Len(L[i].s) - Len(rest), s |-> rest]>>)
                               \o SubSeq(L, i + 1, GroupEnd(L, starts, i)))))],
               LAMBDA vals :
            IF \E j \in 1..Len(order) : vals[j].err THEN ErrV
            ELSE OkV(SeqV([j \in 1..Len(order) |-> vals[j].v]))))

\* A block mapping at indentation n: one group of lines per key line.
ParseMapLines(L, n) ==
  LET starts == {i \in 1..Len(L) : L[i].ind = n /\ ~IsDash(L[i].s)}
  IN IF \E i \in starts : ~IsKeyLine(L[i].s) THEN ErrV
     ELSE With(SortedStarts(starts), LAMBDA order :
            MapOf([j \in 1..Len(order) |->
                     With(order[j], LAMBDA i :
                     With(KeyRest(L[i].s), LAMBDA rest :
                     With(SubSeq(L, i + 1, GroupEnd(L, starts, i)), LAMBDA tail :
                       [raw |-> RawKey(L[i].s),
                        val |-> IF rest = <<>> THEN ParseLines(tail)
                                ELSE IF tail # <<>> THEN ErrV
                                ELSE ParseInline(rest)])))]))

ParseLines(L) ==
  IF L = <<>> THEN OkV(NullV)
  ELSE LET n == L[1].ind
       IN IF \E i \in 1..Len(L) : L[i].ind < n THEN ErrV
          ELSE IF IsDash(L[1].s) THEN ParseSeqLines(L, n)
          ELSE IF IsKeyLine(L[1].s) THEN ParseMapLines(L, n)
          ELSE IF Len(L) = 1 THEN ParseInline(L[1].s)
          ELSE ErrV

\* yaml.Unmarshal([]byte(text), &data)
Unmarshal(text) ==
  IF \E i \in 1..Len(text) : text[i] = "\t" THEN ErrV
  ELSE ParseLines(ContentLines(Split(text, NL)))

-----------------------------------------------------------------------------
(* yaml.Marshal: block style, mapping keys in increasing order, strings    *)
(* quoted when they would not read back as the same string.  A collection  *)
(* nested in a sequence item is indented by 2, one nested in a mapping to  *)
(* the next multiple of 4 (the encoder's default indentation).             *)

MarshalIndent == 4

OldBools ==
  {<<"y">>, <<"Y">>, <<"y","e","s">>, <<"Y","e","s">>, <<"Y","E","S">>,
   <<"n">>, <<"N">>, <<"n","o">>, <<"N","o">>, <<"N","O">>,
   <<"o","n">>, <<"O","n">>, <<"O","N">>,
   <<"o","f","f">>, <<"O","f","f">>, <<"O","F","F">>}

\* A string the encoder writes in double quotes: read plainly it would
\* resolve to another type.
NeedsDoubleQuote(s) == s = <<>> \/ ResolvePlain(s).t # "str" \/ s \in OldBools

\* A string the emitter may not write plainly in a block context.
NeedsSingleQuote(s) ==
  \/ s[1] \in {"#", ",", "[", "]", "{", "}", "&", "*", "!", "|", ">", SQ, DQ, "%", "@", " "}
  \/ s[1] \in {"?", ":", "-"} /\ (Len(s) = 1 \/ s[2] = " ")
  \/ s[Len(s)] \in {" ", ":"}
  \/ Contains(s, <<":", " ">>)
  \/ Contains(s, <<" ", "#">>)

EmitString(s) ==
  IF NeedsDoubleQuote(s) THEN <<DQ>> \o s \o <<DQ>>
  ELSE IF NeedsSingleQuote(s) THEN <<SQ>> \o s \o <<SQ>>
  ELSE s

IsCollection(v) == v.t \in {"seq", "map", "omap"}

\* A value the encoder writes on the line of its key or dash.
EmitInline(v) ==
  CASE v.t = "null" -> <<"n", "u", "l", "l">>
    [] v.t = "bool" -> IF v.n = 1 THEN <<"t", "r", "u", "e">> ELSE <<"f", "a", "l", "s", "e">>
    [] v.t = "num" -> Itoa(v.n)
    [] v.t = "str" -> EmitString(v.s)
    [] v.t = "seq" -> <<"[", "]">>
    [] OTHER -> <<"{", "}">>

\* A key as the encoder writes it: a key that is no string is written as
\* the scalar it is.
EmitKey(v, k) ==
  IF v.t = "omap" /\ ResolvePlain(k).t # "str" THEN EmitInline(ResolvePlain(k))
  ELSE EmitString(k)

RECURSIVE Flatten(_)
Flatten(lists) == IF lists = <<>> THEN <<>> ELSE lists[1] \o Flatten(Tail(lists))

\* The lines of a non-empty collection written at indentation ind.
RECURSIVE EmitBlock(_, _)
EmitBlock(v, ind) ==
  LET inline(x) == ~IsCollection(x) \/ x.kids = <<>>
  IN IF v.t = "seq"
     THEN Flatten([i \in 1..Len(v.kids) |->
            With(v.kids[i].v, LAMBDA x :
              IF inline(x) THEN <<Spaces(ind) \o <<"-", " ">> \o EmitInline(x)>>
              ELSE With(EmitBlock(x, ind + 2), LAMBDA sub :
                     <<Spaces(ind) \o <<"-", " ">> \o SubSeq(sub[1], ind + 3, Len(sub[1]))>>
                     \o Tail(sub)))])
     ELSE Flatten([i \in 1..Len(v.kids) |->
            With(v.kids[i], LAMBDA e :
            With(Spaces(ind) \o EmitKey(v, e.k), LAMBDA head :
              IF inline(e.v) THEN <<head \o <<":", " ">> \o EmitInline(e.v)>>
              ELSE <<head \o <<":">>>>
                   \o EmitBlock(e.v, MarshalIndent * ((ind + MarshalIndent) \div MarshalIndent))))])

\* yaml.Marshal(v)
Marshal(v) ==
  IF IsCollection(v) /\ v.kids # <<>>
  THEN Join(EmitBlock(v, 0), <<NL>>) \o <<NL>>
  ELSE EmitInline(v) \o <<NL>>

-----------------------------------------------------------------------------
(* Result (gyaml.go).  Type is one of the six Type constants; a panic of   *)
(* the Go program is the distinguished outcome Panic.                      *)

MkResult(type, raw, str, num) ==
  [Type |-> type, Raw |-> raw, Str |-> str, Num |-> num, Index |-> 0]

\* Result{}: the zero Result.
ZeroResult == MkResult("Null", <<>>, <<>>, 0)

Panic == MkResult("panic", <<>>, <<>>, 0)

\* func valueToResult(val interface{}) Result
valueToResult(val) ==
  CASE val.t = "null" -> MkResult("Null", <<>>, <<>>, 0)
    [] val.t = "bool" ->
         IF val.n = 1 THEN MkResult("True", <<"t", "r", "u", "e">>, <<>>, 0)
         ELSE MkResult("False", <<"f", "a", "l", "s", "e">>, <<>>, 0)
    [] val.t = "num" -> MkResult("Number", Itoa(val.n), <<>>, val.n)
    [] val.t = "str" -> MkResult("String", val.s, val.s, 0)
    [] OTHER -> MkResult("YAML", Marshal(val), <<>>, 0)

\* func (t Result) Exists() bool
Exists(t) == t.Type # "Null" \/ Len(t.Raw) # 0

\* func (t Result) Value() interface{}
Value(t) ==
  CASE t.Type = "False" -> BoolV(FALSE)
    [] t.Type = "Number" -> NumV(t.Num)
    [] t.Type = "String" -> StrV(t.Str)
    [] t.Type = "True" -> BoolV(TRUE)
    [] t.Type = "YAML" -> With(Unmarshal(t.Raw), LAMBDA d : IF d.err THEN NullV ELSE d.v)
    [] OTHER -> NullV

\* func (t Result) String() string
String(t) ==
  CASE t.Type = "Number" ->
         IF Len(t.Raw) = 0 THEN Itoa(t.Num)
         ELSE IF AllDigits(IF t.Raw[1] = "-" THEN Tail(t.Raw) ELSE t.Raw)
                 \/ t.Raw = <<"-">>
              THEN t.Raw
              ELSE Itoa(t.Num)
    [] t.Type = "String" -> t.Str
    [] t.Type = "YAML" -> t.Raw
    [] t.Type = "True" -> <<"t", "r", "u", "e">>
    [] t.Type = "False" -> <<"f", "a", "l", "s", "e">>
    [] OTHER -> <<>>

\* func isYAMLObject(s string) bool, func isYAMLArray(s string) bool
isYAMLObject(s) == Contains(s, <<":", " ">>)
isYAMLArray(s) == HasPrefix(TrimSpace(s), <<"-", " ">>)

\* func (t Result) IsObject() bool, func (t Result) IsArray() bool
IsObject(t) == t.Type = "YAML" /\ Len(t.Raw) > 0 /\ (t.Raw[1] = "{" \/ isYAMLObject(t.Raw))
IsArray(t) == t.Type = "YAML" /\ Len(t.Raw) > 0 /\ (t.Raw[1] = "[" \/ isYAMLArray(t.Raw))

\* type Type int: Null, False, Number, String, True, YAML = iota
TypeValue(type) ==
  CASE type = "Null" -> 0
    [] type = "False" -> 1
    [] type = "Number" -> 2
    [] type = "String" -> 3
    [] type = "True" -> 4
    [] type = "YAML" -> 5

\* c >= 'A' && c <= 'Z'
IsUpperByte(c) == Code(c) >= Code("A") /\ Code(c) <= Code("Z")

\* stringLessInsensitive without the folding of the upper-case bytes.
stringLessSensitive(a, b) == StrLess(a, b)

\* func stringLessInsensitive(a, b string) bool; c+32 of an upper-case byte
\* c is its lower-case byte.
RECURSIVE stringLessInsensitive(_, _)
stringLessInsensitive(a, b) ==
  IF a = <<>> \/ b = <<>> THEN Len(a) < Len(b)
  ELSE With(IF IsUpperByte(a[1]) /\ IsUpperByte(b[1]) THEN <<a[1], b[1]>>
            ELSE IF IsUpperByte(a[1]) THEN <<LowerChar(a[1]), b[1]>>
            ELSE IF IsUpperByte(b[1]) THEN <<a[1], LowerChar(b[1])>>
            ELSE <<a[1], b[1]>>, LAMBDA ab :
         IF Code(ab[1]) < Code(ab[2]) THEN TRUE
         ELSE IF Code(ab[1]) > Code(ab[2]) THEN FALSE
         ELSE stringLessInsensitive(Tail(a), Tail(b)))

\* func (t Result) Less(token Result, caseSensitive bool) bool
Less(t, token, caseSensitive) ==
  IF TypeValue(t.Type) < TypeValue(token.Type) THEN TRUE
  ELSE IF TypeValue(t.Type) > TypeValue(token.Type) THEN FALSE
  ELSE IF t.Type = "String"
  THEN IF caseSensitive THEN StrLess(t.Str, token.Str)
       ELSE stringLessInsensitive(t.Str, token.Str)
  ELSE IF t.Type = "Number" THEN t.Num < token.Num
  ELSE StrLess(t.Raw, token.Raw)

\* func (t Result) Array() []Result, through arrayOrMap('[', false)
Array(t) ==
  IF t.Type = "Null" THEN <<>>
  ELSE IF ~IsArray(t) THEN <<t>>
  ELSE With(Unmarshal(t.Raw), LAMBDA d :
         IF d.err \/ d.v.t # "seq" THEN <<>>
         ELSE [i \in 1..Len(d.v.kids) |-> valueToResult(d.v.kids[i].v)])

-----------------------------------------------------------------------------
(* The fast scalar path (fast_parser.go).  A fast function returns          *)
(* [ok, res]: (Result, bool) of the Go code.                               *)

Declined == [ok |-> FALSE, res |-> ZeroResult]
Answer(r) == [ok |-> TRUE, res |-> r]

\* len(line) - len(strings.TrimLeft(line, " \t"))
Indent(line) == FirstOutside(line, {" ", "\t"}) - 1

\* trimmed == "" || strings.HasPrefix(trimmed, "#")
BlankOrComment(line) ==
  LET trimmed == TrimSpace(line) IN trimmed = <<>> \/ trimmed[1] = "#"

\* func extractValue(value string) (Result, bool).  value[1 : len(value)-1]
\* of a text that is one quote character is a slice out of range: a panic.
extractValue(v) ==
  With(TrimSpace(v), LAMBDA value :
  With(ToLower(value), LAMBDA lower :
    IF value = <<>> THEN Declined
    ELSE IF \/ HasPrefix(value, <<DQ>>) /\ HasSuffix(value, <<DQ>>)
            \/ HasPrefix(value, <<SQ>>) /\ HasSuffix(value, <<SQ>>)
    THEN IF Len(value) < 2 THEN Answer(Panic)
         ELSE Answer(MkResult("String", value, SubSeq(value, 2, Len(value) - 1), 0))
    ELSE IF lower \in {<<"t","r","u","e">>, <<"y","e","s">>, <<"o","n">>}
    THEN Answer(MkResult("True", value, <<>>, 0))
    ELSE IF lower \in {<<"f","a","l","s","e">>, <<"n","o">>, <<"o","f","f">>}
    THEN Answer(MkResult("False", value, <<>>, 0))
    ELSE IF lower \in {<<"n","u","l","l">>, <<"~">>}
    THEN Answer(MkResult("Null", value, <<>>, 0))
    ELSE IF ParseFloatOk(value)
    THEN Answer(MkResult("Number", value, <<>>, ParseFloatVal(value)))
    ELSE Answer(MkResult("String", value, value, 0))))

\* func hasComplexFeatures(path string) bool
hasComplexFeatures(p) ==
  \E i \in 1..Len(p) :
     \/ p[i] \in {"*", "?", "@", "|"}
     \/ p[i] = "#" /\ i + 1 <= Len(p) /\ p[i+1] = "("

\* func splitPath(path string) []string: the loop from byte i on.
RECURSIVE splitPathFrom(_, _, _, _, _)
splitPathFrom(p, i, current, escaped, parts) ==
  IF i > Len(p)
  THEN IF Len(current) > 0 THEN Append(parts, current) ELSE parts
  ELSE LET ch == p[i]
       IN IF escaped THEN splitPathFrom(p, i + 1, Append(current, ch), FALSE, parts)
          ELSE IF ch = BSL THEN splitPathFrom(p, i + 1, current, TRUE, parts)
          ELSE IF ch = "."
          THEN IF Len(current) > 0
               THEN splitPathFrom(p, i + 1, <<>>, FALSE, Append(parts, current))
               ELSE splitPathFrom(p, i + 1, current, FALSE, parts)
          ELSE splitPathFrom(p, i + 1, Append(current, ch), FALSE, parts)

splitPath(p) == splitPathFrom(p, 1, <<>>, FALSE, <<>>)

\* func parseArrayElements(yaml string) []string: the loop over the lines;
\* st = [elements, cur, inElement, baseIndent, elementIndent].
RECURSIVE parseArrayLoop(_, _, _)
parseArrayLoop(lines, i, st) ==
  IF i > Len(lines)
  THEN IF Len(st.cur) > 0 THEN Append(st.elements, st.cur) ELSE st.elements
  ELSE With(lines[i], LAMBDA line :
       With(TrimSpace(line), LAMBDA trimmed :
       With(Indent(line), LAMBDA indent :
       With(IF st.baseIndent = -1 THEN indent ELSE st.baseIndent, LAMBDA base :
         IF trimmed = <<>> \/ trimmed[1] = "#" THEN parseArrayLoop(lines, i + 1, st)
         ELSE parseArrayLoop(lines, i + 1,
                IF HasPrefix(trimmed, <<"-", " ">>) /\ indent = base
                THEN [elements |-> IF st.inElement /\ Len(st.cur) > 0
                                   THEN Append(st.elements, st.cur) ELSE st.elements,
                      cur |-> (IF st.inElement /\ Len(st.cur) > 0 THEN <<>> ELSE st.cur)
                              \o TrimSpace(SubSeq(trimmed, 3, Len(trimmed))),
                      inElement |-> TRUE,
                      baseIndent |-> base,
                      elementIndent |-> indent]
                ELSE IF st.inElement /\ indent > st.elementIndent
                THEN [st EXCEPT !.cur = (IF Len(st.cur) > 0 THEN st.cur \o <<NL>> ELSE st.cur)
                                        \o line,
                                !.baseIndent = base]
                ELSE [st EXCEPT !.baseIndent = base])))))

parseArrayElements(y) ==
  parseArrayLoop(Split(y, NL), 1,
    [elements |-> <<>>, cur |-> <<>>, inElement |-> FALSE,
     baseIndent |-> -1, elementIndent |-> -1])

\* func countArrayElements(yaml string) int
countArrayElements(y) == Len(parseArrayElements(y))

\* The lines after line i that fastParseKey takes as the block of the key at
\* line i (indentation indent): up to the first non-blank line indented no
\* more than the key, those indented by at least 2 more.
RECURSIVE BlockAfter(_, _, _)
BlockAfter(lines, j, indent) ==
  IF j > Len(lines) THEN <<>>
  ELSE IF TrimSpace(lines[j]) = <<>> THEN BlockAfter(lines, j + 1, indent)
  ELSE IF Indent(lines[j]) <= indent THEN <<>>
  ELSE IF Indent(lines[j]) >= indent + 2
       THEN <<lines[j]>> \o BlockAfter(lines, j + 1, indent)
       ELSE BlockAfter(lines, j + 1, indent)

RECURSIVE fastParsePath(_, _, _)
RECURSIVE fastParseKey(_, _, _, _)
RECURSIVE fastParseArrayIndex(_, _, _, _)

\* func fastParseKey(yaml string, parts []string, depth int, key string) (Result, bool)
fastParseKey(y, parts, depth, key) ==
  With(Split(y, NL), LAMBDA lines :
  With({i \in 1..Len(lines) : ~BlankOrComment(lines[i])}, LAMBDA content :
  With(IF content = {} THEN -1
       ELSE Indent(lines[CHOOSE i \in content : \A j \in content : i <= j]), LAMBDA baseIndent :
  With(key \o <<":">>, LAMBDA keyWithColon :
  With({i \in content : /\ Indent(lines[i]) = baseIndent
                        /\ HasPrefix(TrimSpace(lines[i]), keyWithColon)}, LAMBDA found :
    IF found = {} THEN Declined
    ELSE
      With(CHOOSE x \in found : \A z \in found : x <= z, LAMBDA i :
      With(TrimSpace(lines[i]), LAMBDA trimmed :
      With(Indent(lines[i]), LAMBDA indent :
      With(TrimSpace(SubSeq(trimmed, Len(keyWithColon) + 1, Len(trimmed))), LAMBDA valuePart :
      With(BlockAfter(lines, i + 1, indent), LAMBDA block :
        IF depth = Len(parts) - 1
        THEN IF valuePart # <<>>
             THEN IF \/ HasPrefix(valuePart, <<"{">>)
                     \/ HasPrefix(valuePart, <<"[">>)
                     \/ Contains(valuePart, <<":">>)
                  THEN Declined
                  ELSE extractValue(valuePart)
             ELSE IF Len(block) > 0
             THEN With(TrimSpace(block[1]), LAMBDA first :
                    IF HasPrefix(first, <<"-", " ">>) \/ Contains(first, <<":", " ">>)
                    THEN Declined
                    ELSE extractValue(Join(block, <<NL>>)))
             ELSE Declined
        ELSE IF valuePart # <<>> THEN fastParsePath(valuePart, parts, depth + 1)
        ELSE IF Len(block) > 0
        THEN fastParsePath(
               Join([j \in 1..Len(block) |->
                       Spaces(Indent(block[j]) - (indent + 2))
                       \o TrimLeft(block[j], {" ", "\t"})], <<NL>>),
               parts, depth + 1)
        ELSE Declined))))))))))

\* func fastParseArrayIndex(yaml string, parts []string, depth int, index int) (Result, bool)
fastParseArrayIndex(y, parts, depth, index) ==
  With(parseArrayElements(y), LAMBDA elements :
    IF index < 0 \/ index >= Len(elements) THEN Declined
    ELSE IF depth = Len(parts) - 1 THEN extractValue(elements[index + 1])
    ELSE fastParsePath(elements[index + 1], parts, depth + 1))

\* func fastParsePath(yaml string, parts []string, depth int) (Result, bool)
fastParsePath(y, parts, depth) ==
  IF depth >= Len(parts) THEN extractValue(y)
  ELSE With(parts[depth + 1], LAMBDA currentKey :
         IF AtoiOk(currentKey)
         THEN fastParseArrayIndex(y, parts, depth, AtoiVal(currentKey))
         ELSE IF currentKey = <<"#">>
         THEN IF depth + 1 < Len(parts) THEN Declined
              ELSE With(countArrayElements(y), LAMBDA count :
                     Answer(MkResult("Number", Itoa(count), <<>>, count)))
         ELSE fastParseKey(y, parts, depth, currentKey))

\* func fastGet(yaml, path string) (Result, bool)
fastGet(y, p) ==
  IF Len(p) = 0 THEN Answer(MkResult("YAML", y, <<>>, 0))
  ELSE With(splitPath(p), LAMBDA parts :
         IF Len(parts) = 0 THEN Declined
         ELSE IF hasComplexFeatures(p) THEN Declined
         ELSE With(fastParsePath(y, parts, 0), LAMBDA r :
                IF ~r.ok THEN Declined
                ELSE IF r.res.Type = "YAML" \/ r.res.Type = "Null" THEN Declined
                ELSE Answer(r.res)))

-----------------------------------------------------------------------------
(* The path tokenizer (gyaml.go: pathComponent, parsePath, parseComponent). *)

\* pathComponent{}: the zero component.
ZeroComp ==
  [key |-> <<>>, isWild |-> FALSE, isQuery |-> FALSE, query |-> <<>>,
   isIndex |-> FALSE, index |-> 0, isCount |-> FALSE, pipe |-> <<>>,
   hasPipe |-> FALSE, multi |-> FALSE]

\* func parseComponent(s string) pathComponent
parseComponent(s) ==
  IF ContainsAny(s, {"*", "?"}) THEN [ZeroComp EXCEPT !.key = s, !.isWild = TRUE]
  ELSE IF AtoiOk(s) THEN [ZeroComp EXCEPT !.isIndex = TRUE, !.index = AtoiVal(s)]
  ELSE [ZeroComp EXCEPT !.key = s]

\* func parsePath(path string) []pathComponent: the loop from byte i on;
\* st = [parts, current, inQuery, queryDepth, escaped].
RECURSIVE parsePathFrom(_, _, _)
parsePathFrom(p, i, st) ==
  IF i > Len(p)
  THEN IF Len(st.current) > 0 THEN Append(st.parts, parseComponent(st.current))
       ELSE st.parts
  ELSE
    LET ch == p[i]
        flushKey == IF Len(st.current) > 0
                    THEN Append(st.parts, [ZeroComp EXCEPT !.key = st.current])
                    ELSE st.parts
        flushComp == IF Len(st.current) > 0
                     THEN Append(st.parts, parseComponent(st.current))
                     ELSE st.parts
        n == Len(st.parts)
    IN IF st.escaped
       THEN parsePathFrom(p, i + 1, [st EXCEPT !.current = Append(st.current, ch), !.escaped = FALSE])
       ELSE IF ch = BSL
       THEN parsePathFrom(p, i + 1, [st EXCEPT !.escaped = TRUE])
       ELSE IF ch = "#" /\ ~st.inQuery
       THEN IF i + 1 <= Len(p) /\ p[i+1] = "("
            THEN parsePathFrom(p, i + 2,
                   [st EXCEPT !.inQuery = TRUE, !.queryDepth = 1, !.current = <<>>,
                              !.parts = Append(flushKey, [ZeroComp EXCEPT !.isQuery = TRUE])])
            ELSE parsePathFrom(p, i + 1,
                   [st EXCEPT !.current = <<>>,
                              !.parts = Append(flushKey, [ZeroComp EXCEPT !.isCount = TRUE])])
       ELSE IF st.inQuery
       THEN IF ch = ")" /\ st.queryDepth = 1
            THEN LET multi == i + 1 <= Len(p) /\ p[i+1] = "#"
                 IN parsePathFrom(p, IF multi THEN i + 2 ELSE i + 1,
                      [st EXCEPT !.queryDepth = 0, !.inQuery = FALSE, !.current = <<>>,
                                 !.parts = [st.parts EXCEPT ![n] =
                                              [@ EXCEPT !.query = st.current,
                                                        !.multi = multi]]])
            ELSE parsePathFrom(p, i + 1,
                   [st EXCEPT !.current = Append(st.current, ch),
                              !.queryDepth = IF ch = "(" THEN @ + 1
                                             ELSE IF ch = ")" THEN @ - 1 ELSE @])
       ELSE IF ch = "."
       THEN parsePathFrom(p, i + 1, [st EXCEPT !.current = <<>>, !.parts = flushComp])
       ELSE IF ch = "|"
       THEN Append(flushComp, [ZeroComp EXCEPT !.pipe = SubSeq(p, i + 1, Len(p)), !.hasPipe = TRUE])
       ELSE parsePathFrom(p, i + 1, [st EXCEPT !.current = Append(st.current, ch)])

parsePath(p) ==
  parsePathFrom(p, 1, [parts |-> <<>>, current |-> <<>>, inQuery |-> FALSE,
                        queryDepth |-> 0, escaped |-> FALSE])

-----------------------------------------------------------------------------
(* The pattern matcher and the query evaluator (gyaml.go).                 *)

\* deepMatch with a * that matches the empty run only.
RECURSIVE deepMatchNoRun(_, _)
deepMatchNoRun(str, pattern) ==
  IF Len(pattern) = 0 THEN Len(str) = 0
  ELSE IF pattern[1] = "*"
  THEN IF Len(pattern) = 1 THEN TRUE ELSE deepMatchNoRun(str, Tail(pattern))
  ELSE IF pattern[1] = "?"
  THEN IF Len(str) = 0 THEN FALSE ELSE deepMatchNoRun(Tail(str), Tail(pattern))
  ELSE IF Len(str) = 0 \/ str[1] # pattern[1] THEN FALSE
  ELSE deepMatchNoRun(Tail(str), Tail(pattern))

\* func deepMatch(str, pattern string) bool
RECURSIVE deepMatch(_, _)
deepMatch(str, pattern) ==
  IF Len(pattern) = 0 THEN Len(str) = 0
  ELSE IF pattern[1] = "*"
  THEN IF Len(pattern) = 1 THEN TRUE
       ELSE \E i \in 0..Len(str) : deepMatch(SubSeq(str, i + 1, Len(str)), Tail(pattern))
  ELSE IF pattern[1] = "?"
  THEN IF Len(str) = 0 THEN FALSE ELSE deepMatch(Tail(str), Tail(pattern))
  ELSE IF Len(str) = 0 \/ str[1] # pattern[1] THEN FALSE
  ELSE deepMatch(Tail(str), Tail(pattern))

\* func matchPattern(str, pattern string) bool, through wildcard
matchPattern(str, pattern) == deepMatch(str, pattern)

\* fmt.Sprint(v) of a parsed value.
RECURSIVE Sprint(_)
Sprint(v) ==
  CASE v.t = "null" -> <<"<", "n", "i", "l", ">">>
    [] v.t = "bool" -> IF v.n = 1 THEN <<"t", "r", "u", "e">> ELSE <<"f", "a", "l", "s", "e">>
    [] v.t = "num" -> Itoa(v.n)
    [] v.t = "str" -> v.s
    [] v.t = "seq" ->
         <<"[">> \o Join([i \in 1..Len(v.kids) |-> Sprint(v.kids[i].v)], <<" ">>) \o <<"]">>
    [] OTHER ->
         <<"m", "a", "p", "[">>
         \o Join([i \in 1..Len(v.kids) |-> v.kids[i].k \o <<":">> \o Sprint(v.kids[i].v)], <<" ">>)
         \o <<"]">>

\* func compareNumeric(itemValue interface{}, op string, value string) bool.
\* A string operand that is no number is read as 0 (the error is dropped).
compareNumeric(itemValue, op, value) ==
  IF itemValue.t \notin {"num", "str"} THEN FALSE
  ELSE IF ~ParseFloatOk(value) THEN FALSE
  ELSE LET itemNum == IF itemValue.t = "num" THEN itemValue.n
                      ELSE IF ParseFloatOk(itemValue.s) THEN ParseFloatVal(itemValue.s)
                      ELSE 0
           valueNum == ParseFloatVal(value)
       IN CASE op = <<"<">> -> itemNum < valueNum
            [] op = <<"<", "=">> -> itemNum <= valueNum
            [] op = <<">">> -> itemNum > valueNum
            [] op = <<">", "=">> -> itemNum >= valueNum
            [] OTHER -> FALSE

\* func compareValues(itemValue interface{}, op string, value string) bool
compareValues(itemValue, op, value) ==
  With(Sprint(itemValue), LAMBDA str :
    CASE op = <<"=", "=">> -> str = value
      [] op = <<"!", "=">> -> str # value
      [] op \in {<<"%">>, <<"!", "%">>} -> matchPattern(str, value) = (op = <<"%">>)
      [] op \in {<<"<">>, <<"<", "=">>, <<">">>, <<">", "=">>} -> compareNumeric(itemValue, op, value)
      [] OTHER -> FALSE)

\* func getValueByKey(data interface{}, key string) interface{}
RECURSIVE walkKeys(_, _)
walkKeys(current, parts) ==
  IF parts = <<>> THEN current
  ELSE IF current.t # "map" THEN NullV
  ELSE walkKeys(IF HasKey(current, parts[1]) THEN Lookup(current, parts[1]) ELSE NullV,
                Tail(parts))

getValueByKey(data, key) ==
  IF data.t # "map" THEN NullV
  ELSE IF Contains(key, <<".">>) THEN walkKeys(data, Split(key, "."))
  ELSE IF HasKey(data, key) THEN Lookup(data, key) ELSE NullV

\* The operators in the order evaluateQuery looks for them.
Operators ==
  << <<"=", "=">>, <<"!", "=">>, <<"<", "=">>, <<">", "=">>, <<"<">>, <<">">>,
     <<"!", "%">>, <<"%">> >>

\* func evaluateQuery(item interface{}, query string) bool
evaluateQuery(item, query) ==
  With({k \in 1..Len(Operators) : Index(query, Operators[k]) # -1}, LAMBDA present :
    IF present = {} THEN FALSE
    ELSE With(Operators[CHOOSE x \in present : \A z \in present : x <= z], LAMBDA op :
         With(Index(query, op), LAMBDA idx :
         With(TrimSpace(SubSeq(query, 1, idx)), LAMBDA key :
           compareValues(IF key = <<>> THEN item ELSE getValueByKey(item, key), op,
                         Trim(TrimSpace(SubSeq(query, idx + Len(op) + 1, Len(query))),
                              {DQ, SQ}))))))

\* The elements of arr that satisfy the query, in order.
RECURSIVE queryMatches(_, _)
queryMatches(items, query) ==
  IF items = <<>> THEN <<>>
  ELSE (IF evaluateQuery(items[1], query) THEN <<items[1]>> ELSE <<>>)
       \o queryMatches(Tail(items), query)

\* handleQuery leaving its loop at the first match.
handleQueryOneMatch(data, part) ==
  IF data.t # "seq" THEN NullV
  ELSE LET matches == queryMatches(Items(data), part.query)
       IN IF part.multi THEN SeqV(IF Len(matches) > 0 THEN <<matches[1]>> ELSE <<>>)
          ELSE IF Len(matches) > 0 THEN matches[1]
          ELSE NullV

\* handleQuery keeping the last match for a query that is not multi.
handleQueryLastMatch(data, part) ==
  IF data.t # "seq" THEN NullV
  ELSE LET matches == queryMatches(Items(data), part.query)
       IN IF part.multi THEN SeqV(matches)
          ELSE IF Len(matches) > 0 THEN matches[Len(matches)]
          ELSE NullV

\* func handleQuery(data interface{}, part pathComponent, remainingParts []pathComponent) interface{}
handleQuery(data, part) ==
  IF data.t # "seq" THEN NullV
  ELSE LET matches == queryMatches(Items(data), part.query)
       IN IF part.multi THEN SeqV(matches)
          ELSE IF Len(matches) > 0 THEN matches[1]
          ELSE NullV

-----------------------------------------------------------------------------
(* Modifiers (gyaml.go).  The registry maps a name to a function; the      *)
(* functions are named by identifiers.  env = [mods, ord] is what a query  *)
(* reads besides its arguments: the registry, and ord, which fixes the     *)
(* order in which this run of the program ranges over the keys of a Go     *)
(* map (the runtime starts every range at a random entry).                 *)

\* The entries of a mapping in the order a range statement visits them.
RangeKids(v, ord) ==
  LET n == Len(v.kids)
  IN [i \in 1..n |-> v.kids[((i - 1 + ord) % n) + 1]]

Reverse(s) == [i \in 1..Len(s) |-> s[Len(s) + 1 - i]]

\* Valid without the test for a text of white space.
ValidNoTrim(y) == ~Unmarshal(y).err

\* func Valid(yaml string) bool
Valid(y) == Len(TrimSpace(y)) # 0 /\ ~Unmarshal(y).err

\* func modReverse(yamlStr, arg string) string
modReverse(yamlStr, arg) ==
  With(Unmarshal(yamlStr), LAMBDA d :
    IF d.err \/ d.v.t \notin {"seq", "map"} THEN yamlStr
    ELSE Marshal(IF d.v.t = "seq" THEN SeqV(Reverse(Items(d.v))) ELSE d.v))

\* func modUgly(yamlStr, arg string) string
modUgly(yamlStr, arg) ==
  With(Unmarshal(yamlStr), LAMBDA d : IF d.err THEN yamlStr ELSE TrimSpace(Marshal(d.v)))

\* func modPretty(yamlStr, arg string) string
modPretty(yamlStr, arg) ==
  With(Unmarshal(yamlStr), LAMBDA d : IF d.err THEN yamlStr ELSE Marshal(d.v))

\* func modThis(yamlStr, arg string) string
modThis(yamlStr, arg) == yamlStr

\* func modValid(yamlStr, arg string) string
modValid(yamlStr, arg) ==
  IF Valid(yamlStr) THEN <<"t", "r", "u", "e">> ELSE <<"f", "a", "l", "s", "e">>

\* func flattenArray(arr []interface{}) []interface{}
RECURSIVE flattenArray(_)
flattenArray(arr) ==
  IF arr = <<>> THEN <<>>
  ELSE (IF arr[1].t = "seq" THEN flattenArray(Items(arr[1])) ELSE <<arr[1]>>)
       \o flattenArray(Tail(arr))

\* func modFlatten(yamlStr, arg string) string
modFlatten(yamlStr, arg) ==
  With(Unmarshal(yamlStr), LAMBDA d :
    IF ~d.err /\ d.v.t = "seq" THEN Marshal(SeqV(flattenArray(Items(d.v)))) ELSE yamlStr)

\* joined[k] = v for every entry of every mapping of arr, in order.
RECURSIVE joinEntries(_, _)
joinEntries(entries, joined) ==
  IF entries = <<>> THEN joined
  ELSE LET e == entries[1]
           rest == SelectSeq(joined, LAMBDA x : x.k # e.k)
       IN joinEntries(Tail(entries), Append(rest, e))

\* func modJoin(yamlStr, arg string) string
modJoin(yamlStr, arg) ==
  With(Unmarshal(yamlStr), LAMBDA d :
    IF ~d.err /\ d.v.t = "seq"
    THEN With(SelectSeq(Items(d.v), LAMBDA x : x.t = "map"), LAMBDA maps :
           Marshal(MapV(joinEntries(Flatten([i \in 1..Len(maps) |-> maps[i].kids]), <<>>))))
    ELSE yamlStr)

\* func modKeys(yamlStr, arg string) string
modKeys(yamlStr, ord) ==
  With(Unmarshal(yamlStr), LAMBDA d :
    IF ~d.err /\ d.v.t = "map"
    THEN With(RangeKids(d.v, ord), LAMBDA kids :
           Marshal(SeqV([i \in 1..Len(kids) |-> StrV(kids[i].k)])))
    ELSE yamlStr)

\* func modValues(yamlStr, arg string) string
modValues(yamlStr, ord) ==
  With(Unmarshal(yamlStr), LAMBDA d :
    IF ~d.err /\ d.v.t = "map"
    THEN With(RangeKids(d.v, ord), LAMBDA kids :
           Marshal(SeqV([i \in 1..Len(kids) |-> kids[i].v])))
    ELSE yamlStr)

\* Names as texts.
NReverse == <<"r", "e", "v", "e", "r", "s", "e">>
NUgly == <<"u", "g", "l", "y">>
NPretty == <<"p", "r", "e", "t", "t", "y">>
NThis == <<"t", "h", "i", "s">>
NValid == <<"v", "a", "l", "i", "d">>
NFlatten == <<"f", "l", "a", "t", "t", "e", "n">>
NJoin == <<"j", "o", "i", "n">>
NKeys == <<"k", "e", "y", "s">>
NValues == <<"v", "a", "l", "u", "e", "s">>
NTest == <<"t", "e", "s", "t">>

\* var modifiers = map[string]func(yaml, arg string) string{...}
BuiltinModifiers ==
  (NReverse :> "modReverse") @@ (NUgly :> "modUgly") @@ (NPretty :> "modPretty")
  @@ (NThis :> "modThis") @@ (NValid :> "modValid") @@ (NFlatten :> "modFlatten")
  @@ (NJoin :> "modJoin") @@ (NKeys :> "modKeys") @@ (NValues :> "modValues")

\* The functions a caller registers: the one of TestAddModifier, which
\* returns "modified", and one that returns its argument.
CustomFns == {"constModified", "echoArg"}

\* The call fn(yamlStr, arg) of a registered function.
CallModifier(fn, yamlStr, arg, ord) ==
  CASE fn = "modReverse" -> modReverse(yamlStr, arg)
    [] fn = "modUgly" -> modUgly(yamlStr, arg)
    [] fn = "modPretty" -> modPretty(yamlStr, arg)
    [] fn = "modThis" -> modThis(yamlStr, arg)
    [] fn = "modValid" -> modValid(yamlStr, arg)
    [] fn = "modFlatten" -> modFlatten(yamlStr, arg)
    [] fn = "modJoin" -> modJoin(yamlStr, arg)
    [] fn = "modKeys" -> modKeys(yamlStr, ord)
    [] fn = "modValues" -> modValues(yamlStr, ord)
    [] fn = "constModified" -> <<"m", "o", "d", "i", "f", "i", "e", "d">>
    [] OTHER -> arg

\* applyModifier ending at the first modifier of a chain.
applyModifierFirstOnly(data, p, yamlStr, env) ==
  IF ~HasPrefix(p, <<"@">>) THEN valueToResult(data)
  ELSE
    With(Index(p, <<":">>), LAMBDA colon :
    With(IF colon # -1 THEN SubSeq(p, 2, colon) ELSE Tail(p), LAMBDA name0 :
    With(IF colon # -1 THEN SubSeq(p, colon + 2, Len(p)) ELSE <<>>, LAMBDA modArg :
    With(Index(name0, <<"|">>), LAMBDA bar :
    With(IF bar # -1 THEN SubSeq(name0, 1, bar) ELSE name0, LAMBDA modName :
      IF modName \notin DOMAIN env.mods THEN valueToResult(data)
      ELSE With(Unmarshal(CallModifier(env.mods[modName], yamlStr, modArg, env.ord)),
                LAMBDA newData : valueToResult(IF newData.err THEN NullV ELSE newData.v)))))))

\* func applyModifier(data interface{}, path string, yamlStr string) Result
RECURSIVE applyModifier(_, _, _, _)
applyModifier(data, p, yamlStr, env) ==
  IF ~HasPrefix(p, <<"@">>) THEN valueToResult(data)
  ELSE
    With(Index(p, <<":">>), LAMBDA colon :
    With(IF colon # -1 THEN SubSeq(p, 2, colon) ELSE Tail(p), LAMBDA name0 :
    With(IF colon # -1 THEN SubSeq(p, colon + 2, Len(p)) ELSE <<>>, LAMBDA modArg :
    With(Index(name0, <<"|">>), LAMBDA bar :
    With(IF bar # -1 THEN SubSeq(name0, 1, bar) ELSE name0, LAMBDA modName :
      IF modName \notin DOMAIN env.mods THEN valueToResult(data)
      ELSE With(CallModifier(env.mods[modName], yamlStr, modArg, env.ord), LAMBDA out :
             IF bar # -1
             THEN applyModifier(data, SubSeq(name0, bar + 2, Len(name0)), out, env)
             ELSE With(Unmarshal(out), LAMBDA newData :
                    valueToResult(IF newData.err THEN NullV ELSE newData.v))))))))

-----------------------------------------------------------------------------
(* The traversal engine (gyaml.go: traversePath, getFromPath, Get).        *)

\* The loop of existentValues without the test of res.Exists().
allValues(rs) == [i \in 1..Len(rs) |-> Value(rs[i])]

\* The values res.Value() of the existent results among rs, in order.
RECURSIVE existentValues(_)
existentValues(rs) ==
  IF rs = <<>> THEN <<>>
  ELSE (IF Exists(rs[1]) THEN <<Value(rs[1])>> ELSE <<>>) \o existentValues(Tail(rs))

\* wildMatches taking every entry, whatever its key.
wildMatchesAll(v, pattern, ord) ==
  LET kids == RangeKids(v, ord)
  IN [i \in 1..Len(kids) |-> kids[i].v]

\* The values of the entries whose key matches the pattern, as ranged over.
wildMatches(v, pattern, ord) ==
  LET kids == SelectSeq(RangeKids(v, ord), LAMBDA e : matchPattern(e.k, pattern))
  IN [i \in 1..Len(kids) |-> kids[i].v]

\* The values m[key] of the elements that are mappings holding key.
keyProjection(v, key) ==
  LET hits == SelectSeq(Items(v), LAMBDA x : x.t = "map" /\ HasKey(x, key))
  IN [i \in 1..Len(hits) |-> Lookup(hits[i], key)]

\* func traversePath(data interface{}, parts []pathComponent, origYAML string) Result:
\* the loop from component i on, with the value current.
RECURSIVE traverseFrom(_, _, _, _, _)
traverseFrom(current, parts, i, origYAML, env) ==
  IF i > Len(parts) THEN valueToResult(current)
  ELSE
    LET part == parts[i]
        more == i + 1 <= Len(parts)
        rest == SubSeq(parts, i + 1, Len(parts))
        each(items) == [j \in 1..Len(items) |-> traverseFrom(items[j], rest, 1, origYAML, env)]
        step ==
          \* switch v := current.(type)
          IF current.t = "map"
          THEN IF part.isWild
               THEN LET matches == wildMatches(current, part.key, env.ord)
                    IN traverseFrom(IF Len(matches) = 1 THEN matches[1] ELSE SeqV(matches),
                                    parts, i + 1, origYAML, env)
               ELSE IF ~HasKey(current, part.key) THEN ZeroResult
               ELSE traverseFrom(Lookup(current, part.key), parts, i + 1, origYAML, env)
          ELSE IF current.t = "seq"
          THEN IF part.isIndex
               THEN IF part.index < 0 \/ part.index >= Len(current.kids) THEN ZeroResult
                    ELSE traverseFrom(current.kids[part.index + 1].v, parts, i + 1, origYAML, env)
               ELSE IF part.key # <<>>
               THEN LET results == keyProjection(current, part.key)
                    IN IF Len(results) = 0 THEN ZeroResult
                       ELSE traverseFrom(SeqV(results), parts, i + 1, origYAML, env)
               ELSE traverseFrom(current, parts, i + 1, origYAML, env)
          ELSE ZeroResult
    IN IF part.hasPipe
       THEN applyModifier(current, part.pipe, valueToResult(current).Raw, env)
       ELSE IF part.isCount /\ more /\ current.t = "seq"
       THEN valueToResult(SeqV(existentValues(each(Items(current)))))
       ELSE IF part.isCount /\ more /\ current.t = "map"
       THEN ZeroResult
       ELSE IF part.isCount /\ ~more
       THEN IF current.t \in {"seq", "map"}
            THEN MkResult("Number", Itoa(Len(current.kids)), <<>>, Len(current.kids))
            ELSE MkResult("Number", <<"0">>, <<>>, 0)
       ELSE IF part.isQuery
       THEN LET found == handleQuery(current, part)
            IN IF ~part.multi /\ more THEN traverseFrom(found, rest, 1, origYAML, env)
               ELSE IF part.multi /\ more /\ found.t = "seq"
               THEN valueToResult(SeqV(existentValues(each(Items(found)))))
               ELSE valueToResult(found)
       ELSE step

traversePath(data, parts, origYAML, env) == traverseFrom(data, parts, 1, origYAML, env)

\* func getFromPath(data interface{}, path string, origYAML string) Result
getFromPath(data, p, origYAML, env) ==
  IF p = <<>> \/ p = <<"@">> \o NThis THEN valueToResult(data)
  ELSE IF p[1] = "@" THEN applyModifier(data, p, origYAML, env)
  ELSE LET parts == parsePath(p)
       IN IF Len(parts) = 0 THEN valueToResult(data)
          ELSE traversePath(data, parts, origYAML, env)

\* lineValues keeping a null for a line that does not parse.
RECURSIVE lineValuesKeepAll(_)
lineValuesKeepAll(lines) ==
  IF lines = <<>> THEN <<>>
  ELSE With(TrimSpace(lines[1]), LAMBDA line :
       With(Unmarshal(line), LAMBDA item :
         (IF line = <<>> THEN <<>> ELSE <<item.v>>) \o lineValuesKeepAll(Tail(lines))))

\* The values parsed from the lines, those that do not parse left out.
RECURSIVE lineValues(_)
lineValues(lines) ==
  IF lines = <<>> THEN <<>>
  ELSE With(TrimSpace(lines[1]), LAMBDA line :
       With(Unmarshal(line), LAMBDA item :
         (IF line = <<>> \/ item.err THEN <<>> ELSE <<item.v>>) \o lineValues(Tail(lines))))

\* func getMany(yaml, path string) Result: the ".." prefix
getMany(y, p, env) ==
  getFromPath(SeqV(lineValues(Split(y, NL))), SubSeq(p, 3, Len(p)), y, env)

\* Get going on to the traversal when the parser has rejected the text.
GetUnchecked(y, p, env) ==
  IF Len(p) > 1 /\ p[1] = "." /\ p[2] = "." THEN getMany(y, p, env)
  ELSE IF Len(p) = 0 THEN MkResult("YAML", y, <<>>, 0)
  ELSE With(IF p[1] = "." THEN Tail(p) ELSE p, LAMBDA q :
       With(fastGet(y, q), LAMBDA fast :
         IF fast.ok THEN fast.res
         ELSE With(Unmarshal(y), LAMBDA data : getFromPath(data.v, q, y, env))))

\* Get answering the empty path with the parsed and serialized document.
GetEmptyParsed(y, p, env) ==
  IF Len(p) > 1 /\ p[1] = "." /\ p[2] = "." THEN getMany(y, p, env)
  ELSE IF Len(p) = 0
  THEN With(Unmarshal(y), LAMBDA data :
         IF data.err THEN ZeroResult ELSE valueToResult(data.v))
  ELSE With(IF p[1] = "." THEN Tail(p) ELSE p, LAMBDA q :
       With(fastGet(y, q), LAMBDA fast :
         IF fast.ok THEN fast.res
         ELSE With(Unmarshal(y), LAMBDA data :
                IF data.err THEN ZeroResult
                ELSE getFromPath(data.v, q, y, env))))

\* func Get(yaml, path string) Result
Get(y, p, env) ==
  IF Len(p) > 1 /\ p[1] = "." /\ p[2] = "." THEN getMany(y, p, env)
  ELSE IF Len(p) = 0 THEN MkResult("YAML", y, <<>>, 0)
  ELSE With(IF p[1] = "." THEN Tail(p) ELSE p, LAMBDA q :
       With(fastGet(y, q), LAMBDA fast :
         IF fast.ok THEN fast.res
         ELSE With(Unmarshal(y), LAMBDA data :
                IF data.err THEN ZeroResult
                ELSE getFromPath(data.v, q, y, env))))

\* func Parse(yaml string) Result
Parse(y) == MkResult("YAML", y, <<>>, 0)

\* func GetMany(yaml string, path ...string) Result
GetMany(y, ps, env) ==
  With([i \in 1..Len(ps) |-> Get(y, ps[i], env)], LAMBDA vals :
    IF \E i \in 1..Len(ps) : vals[i] = Panic THEN Panic
    ELSE MkResult("YAML",
                  <<"[">> \o Join([i \in 1..Len(ps) |-> vals[i].Raw], <<",">>) \o <<"]">>,
                  <<>>, 0))

\* The iterator functions a caller passes: iterator k returns false at its
\* k-th call and true at every other call (iterator 0 always returns true).
IterReturn(k, n) == n # k

\* One call of the iterator: what it was passed and what it returned.
Call(key, value, more) == [key |-> key, value |-> value, more |-> more]

\* The range loops of ForEach from entry i on: the calls made.
RECURSIVE forEachLoop(_, _, _)
forEachLoop(entries, i, iterator) ==
  IF i > Len(entries) THEN <<>>
  ELSE With(IterReturn(iterator, i), LAMBDA more :
         <<Call(entries[i].key, entries[i].value, more)>>
         \o (IF more THEN forEachLoop(entries, i + 1, iterator) ELSE <<>>))

\* func (t Result) ForEach(iterator func(key, value Result) bool): the calls
\* of the iterator, in order.
ForEach(t, iterator, ord) ==
  IF ~Exists(t) THEN <<>>
  ELSE IF t.Type # "YAML" THEN <<Call(ZeroResult, t, IterReturn(iterator, 1))>>
  ELSE With(Unmarshal(t.Raw), LAMBDA d :
         IF d.err THEN <<>>
         ELSE IF d.v.t = "map"
         THEN With(RangeKids(d.v, ord), LAMBDA kids :
                forEachLoop([i \in 1..Len(kids) |->
                               [key |-> MkResult("String", kids[i].k, kids[i].k, 0),
                                value |-> valueToResult(kids[i].v)]], 1, iterator))
         ELSE IF d.v.t = "seq"
         THEN forEachLoop([i \in 1..Len(d.v.kids) |->
                             [key |-> MkResult("Number", <<>>, <<>>, i - 1),
                              value |-> valueToResult(d.v.kids[i].v)]], 1, iterator)
         ELSE <<Call(ZeroResult, t, IterReturn(iterator, 1))>>)

\* forEachLineLoop going on after the iterator has returned false.
RECURSIVE forEachLineNoStop(_, _, _)
forEachLineNoStop(lines, n, iterator) ==
  IF lines = <<>> THEN <<>>
  ELSE With(TrimSpace(lines[1]), LAMBDA line :
         IF line = <<>> THEN forEachLineNoStop(Tail(lines), n, iterator)
         ELSE <<Call(ZeroResult, Parse(line), IterReturn(iterator, n + 1))>>
              \o forEachLineNoStop(Tail(lines), n + 1, iterator))

\* The loop of ForEachLine over the lines left, after n calls: the calls made.
RECURSIVE forEachLineLoop(_, _, _)
forEachLineLoop(lines, n, iterator) ==
  IF lines = <<>> THEN <<>>
  ELSE With(TrimSpace(lines[1]), LAMBDA line :
       With(IterReturn(iterator, n + 1), LAMBDA more :
         IF line = <<>> THEN forEachLineLoop(Tail(lines), n, iterator)
         ELSE <<Call(ZeroResult, Parse(line), more)>>
              \o (IF more THEN forEachLineLoop(Tail(lines), n + 1, iterator) ELSE <<>>)))

\* func ForEachLine(yaml string, iterator func(line Result) bool): the calls
\* of the iterator, in order (the line is the value of the call).
ForEachLine(y, iterator) == forEachLineLoop(Split(y, NL), 0, iterator)

\* func (t Result) Get(path string) Result
ResultGet(t, p, env) ==
  With(Get(t.Raw, p, env), LAMBDA r :
    IF r = Panic THEN Panic ELSE [r EXCEPT !.Index = @ + t.Index])

-----------------------------------------------------------------------------
(* The documents and paths of the model.                                   *)

\* const testYAML of the tests: the document of the README.
DocReadme ==
  <<"\n", "n", "a", "m", "e", ":", "\n", " ", " ", "f", "i", "r", "s", 
      "t", ":", " ", "T", "o", "m", "\n", " ", " ", "l", "a", "s", "t", 
      ":", " ", "A", "n", "d", "e", "r", "s", "o", "n", "\n", "a", "g", 
      "e", ":", " ", "3", "7", "\n", "c", "h", "i", "l", "d", "r", "e", 
      "n", ":", "\n", " ", " ", "-", " ", "S", "a", "r", "a", "\n", 
      " ", " ", "-", " ", "A", "l", "e", "x", "\n", " ", " ", "-", " ", 
      "J", "a", "c", "k", "\n", "f", "a", "v", ".", "m", "o", "v", "i", 
      "e", ":", " ", "D", "e", "e", "r", " ", "H", "u", "n", "t", "e", 
      "r", "\n", "f", "r", "i", "e", "n", "d", "s", ":", "\n", " ", 
      " ", "-", " ", "f", "i", "r", "s", "t", ":", " ", "D", "a", "l", 
      "e", "\n", " ", " ", " ", " ", "l", "a", "s", "t", ":", " ", "M", 
      "u", "r", "p", "h", "y", "\n", " ", " ", " ", " ", "a", "g", "e", 
      ":", " ", "4", "4", "\n", " ", " ", " ", " ", "n", "e", "t", "s", 
      ":", "\n", " ", " ", " ", " ", " ", " ", "-", " ", "i", "g", 
      "\n", " ", " ", " ", " ", " ", " ", "-", " ", "f", "b", "\n", 
      " ", " ", " ", " ", " ", " ", "-", " ", "t", "w", "\n", " ", " ", 
      "-", " ", "f", "i", "r", "s", "t", ":", " ", "R", "o", "g", "e", 
      "r", "\n", " ", " ", " ", " ", "l", "a", "s", "t", ":", " ", "C", 
      "r", "a", "i", "g", "\n", " ", " ", " ", " ", "a", "g", "e", ":", 
      " ", "6", "8", "\n", " ", " ", " ", " ", "n", "e", "t", "s", ":", 
      "\n", " ", " ", " ", " ", " ", " ", "-", " ", "f", "b", "\n", 
      " ", " ", " ", " ", " ", " ", "-", " ", "t", "w", "\n", " ", " ", 
      "-", " ", "f", "i", "r", "s", "t", ":", " ", "J", "a", "n", "e", 
      "\n", " ", " ", " ", " ", "l", "a", "s", "t", ":", " ", "M", "u", 
      "r", "p", "h", "y", "\n", " ", " ", " ", " ", "a", "g", "e", ":", 
      " ", "4", "7", "\n", " ", " ", " ", " ", "n", "e", "t", "s", ":", 
      "\n", " ", " ", " ", " ", " ", " ", "-", " ", "i", "g", "\n", 
      " ", " ", " ", " ", " ", " ", "-", " ", "t", "w", "\n">>

\* a: {b: {c: 1}}, the scalar followed by a comment
DocComment == <<"a", ":", "\n", " ", " ", "b", ":", "\n", " ", " ", " ", " ", "c", 
      ":", " ", "1", " ", "#", " ", "n", "\n">>
\* a: {b: {c: "yes"}}: yes is a string to the parser
DocYes == <<"a", ":", "\n", " ", " ", "b", ":", "\n", " ", " ", " ", " ", "c", 
      ":", " ", "y", "e", "s", "\n">>
\* a: {b: [x, y]}, the sequence written at the indentation of its key
DocFlush == <<"a", ":", "\n", " ", " ", "b", ":", "\n", " ", " ", "-", " ", "x", 
      "\n", " ", " ", "-", " ", "y", "\n">>
\* the scalar "a:b"
DocScalar == <<"a", ":", "b">>
\* flow collections: a: [x, y], b: {c: 1}
DocFlow == <<"a", ":", " ", "[", "x", ",", " ", "y", "]", "\n", "b", ":", " ", 
      "{", "c", ":", " ", "1", "}", "\n">>
\* a sequence of scalars and a mapping beside it
DocMixed == <<"a", ":", "\n", " ", " ", "-", " ", "x", "\n", " ", " ", "-", " ", 
      "y", "\n", " ", " ", "-", " ", "3", "\n", "b", ":", "\n", " ", 
      " ", "c", ":", " ", "2", "\n", " ", " ", "a", ":", " ", "1", 
      "\n", "c", ":", " ", "3", "\n">>
\* a sequence at the root
DocRootSeq == <<"-", " ", "b", ":", " ", "x", "\n", " ", " ", "c", ":", " ", "1", 
      "\n", "-", " ", "y", "\n">>
\* texts the parser rejects: an open flow sequence, an open quote, a tab
DocOpenFlow == <<"a", ":", " ", "1", "\n", "b", ":", " ", "[", "\n">>
DocOpenQuote == <<"a", ":", " ", "\"", "\n">>
DocTab == <<"a", ":", "\n", "\t", "b", ":", " ", "1", "\n">>

\* the keys of SYNTAX.md that need an escape in a path
DocSyntax == <<"m", "y", "-", "k", "e", "y", ":", " ", "d", "\n", "m", "y", ".", "k", "e", "y", ":", " ", "p", "\n", "m", "y", "*", "k", "e", "y", ":", " ", "s", "\n">>
\* a mapping whose keys are numbers
DocIntKeys == <<"1", ":", " ", "x", "\n", "2", ":", " ", "y", "\n">>

\* elements whose d is a boolean and a quoted numeral, whose e is a text
DocOperands == <<"a", ":", "\n", " ", " ", "-", " ", "d", ":", " ", "t", "r", "u", "e", "\n", " ", " ", " ", " ", "e", ":", " ", "1", "\n", " ", " ", "-", " ", "d", ":", " ", "\"", "5", "\"", "\n", " ", " ", " ", " ", "e", ":", " ", "x", "\n">>

\* the texts without content: the parser accepts them
DocEmpty == <<>>
DocBlank == <<" ", "\n">>

CuratedDocs ==
  {DocReadme, DocComment, DocYes, DocFlush, DocScalar, DocFlow, DocMixed,
   DocRootSeq, DocOpenFlow, DocOpenQuote, DocTab, DocSyntax, DocIntKeys,
   DocEmpty, DocBlank, DocOperands}

\* The most elements of a generated sequence.
MaxLen == 2

\* The elements of the generated sequences: mappings, as their lines.
ElemPool ==
  {<<<<"b", ":", " ", "x">>, <<"c", ":", " ", "1">>>>, <<<<"b", ":", " ", "y">>, <<"c", ":", " ", "2">>>>, <<<<"b", ":", " ", "x">>>>}

\* The block text of one element under the key a.
ElemText(e) ==
  <<" ", " ", "-", " ">> \o e[1] \o <<NL>>
  \o Flatten([j \in 1..(Len(e) - 1) |-> <<" ", " ", " ", " ">> \o e[j + 1] \o <<NL>>])

\* The document a: [e1, ..., en].
SeqDoc(es) ==
  IF Len(es) = 0 THEN <<"a", ":", " ", "[", "]", "\n">>
  ELSE <<"a", ":", "\n">> \o Flatten([i \in 1..Len(es) |-> ElemText(es[i])])

GeneratedDocs ==
  {SeqDoc(es) : es \in UNION {[1..n -> ElemPool] : n \in 0..MaxLen}}

Docs == CuratedDocs \cup GeneratedDocs

\* The most components of a generated path.
MaxDepth == 2

\* The components of the generated paths: keys, indices and the count.
Segs == {<<"a">>, <<"b">>, <<"0">>, <<"#">>}

PlainPaths ==
  {Join(s, <<".">>) : s \in UNION {[1..n -> Segs] : n \in 1..MaxDepth}}

\* The count followed by further components.
CountPaths == {<<"a", ".", "#", ".", "b">>, <<"a", ".", "#", ".", "c">>, <<"#", ".", "b">>, <<"b", ".", "#", ".", "c">>, <<"a", ".", "#", ".", "0">>, <<"a", ".", "b", ".", "#", ".", "0">>}

\* The predicates of the generated queries.
Queries == {<<"b", "=", "=", "\"", "x", "\"">>, <<"b", "!", "=", "\"", "x", "\"">>, <<"c", ">", "1">>, <<"c", "<", "=", "1">>, <<"b", "%", "\"", "y", "*", "\"">>}

\* The predicates that compare numbers: operands that are texts, numbers,
\* booleans, collections or absent, right values that are numerals or not.
CompareQueries == {<<"b", "<", "1">>, <<"b", ">", "=", "0">>, <<"d", "<", "9">>, <<"d", ">", "=", "6">>, <<"e", "<", "2">>, <<"c", "<", "2">>, <<"c", ">", "=", "2">>, <<"z", "<", "1">>, <<"c", "<", "x">>, <<"c", ">", "=", "\"", "x", "\"">>}
ReadmeCompareQueries == {<<"n", "e", "t", "s", "<", "5">>, <<"f", "i", "r", "s", "t", ">", "=", "0">>, <<"a", "g", "e", "<", "=", "4", "7">>}

\* a.#(q)# and friends.#(q)# for these.
ComparePaths ==
  {<<"a", ".", "#", "(">> \o q \o <<")", "#">> : q \in CompareQueries}
  \cup {<<"f", "r", "i", "e", "n", "d", "s", ".", "#", "(">> \o q \o <<")", "#">> : q \in ReadmeCompareQueries}

\* a.#(q), a.#(q)#, and each followed by a key.
QueryPaths ==
  {<<"a", ".", "#", "(">> \o q \o <<")">> \o m \o k :
     q \in Queries, m \in {<<>>, <<"#">>}, k \in {<<>>, <<".", "b">>, <<".", "c">>}}

\* The paths of the README and of the tests.
ReadmePaths ==
  {<<"n", "a", "m", "e", ".", "l", "a", "s", "t">>, <<"a", "g", "e">>, <<"c", "h", "i", "l", "d", "r", "e", "n">>, <<"c", "h", "i", "l", "d", "r", "e", "n", ".", "#">>, <<"c", "h", "i", "l", "d", "r", "e", "n", ".", "1">>, <<"c", "h", "i", "l", "d", "*", ".", "2">>,
   <<"f", "a", "v", "\\", ".", "m", "o", "v", "i", "e">>, <<"f", "r", "i", "e", "n", "d", "s", ".", "#", ".", "f", "i", "r", "s", 
      "t">>, <<"f", "r", "i", "e", "n", "d", "s", ".", "1", ".", "l", "a", "s", "t">>,
   <<"f", "r", "i", "e", "n", "d", "s", ".", "#", "(", "l", "a", "s", "t", 
      "=", "=", "\"", "M", "u", "r", "p", "h", "y", "\"", ")", ".", 
      "f", "i", "r", "s", "t">>, <<"f", "r", "i", "e", "n", "d", "s", ".", "#", "(", "l", "a", "s", "t", 
      "=", "=", "\"", "M", "u", "r", "p", "h", "y", "\"", ")", "#", 
      ".", "f", "i", "r", "s", "t">>,
   <<"f", "r", "i", "e", "n", "d", "s", ".", "#", "(", "a", "g", "e", ">", 
      "4", "5", ")", "#", ".", "l", "a", "s", "t">>, <<"f", "r", "i", "e", "n", "d", "s", ".", "#", "(", "f", "i", "r", "s", 
      "t", "%", "\"", "D", "*", "\"", ")", ".", "l", "a", "s", "t">>,
   <<"f", "r", "i", "e", "n", "d", "s", ".", "#", "(", "n", "e", "t", "s", 
      ".", "#", "(", "=", "=", "\"", "f", "b", "\"", ")", ")", "#", 
      ".", "f", "i", "r", "s", "t">>, <<"n", "a", "m", "e", ".", "#">>, <<"d", "o", "e", "s", ".", "n", "o", "t", ".", "e", "x", "i", "s", "t">>}

\* Pipes and modifiers.
ModifierPaths ==
  {<<"c", "h", "i", "l", "d", "r", "e", "n", "|", "@", "r", "e", "v", "e", 
      "r", "s", "e">>, <<"c", "h", "i", "l", "d", "r", "e", "n", "|", "@", "r", "e", "v", "e", 
      "r", "s", "e", "|", "0">>, <<"a", "|", "@", "r", "e", "v", "e", "r", "s", "e">>, <<"a", "|", "@", "r", "e", "v", "e", "r", "s", "e", "|", "0">>,
   <<"@", "v", "a", "l", "i", "d">>, <<"@", "t", "h", "i", "s">>, <<"b", "|", "@", "k", "e", "y", "s">>, <<"a", "|", "@", "t", "e", "s", "t">>}

\* Chains of modifiers, and names that are not registered.
ChainBases == {<<"c", "h", "i", "l", "d", "r", "e", "n">>, <<"a">>, <<"b">>}

ModifierChains == {<<"|", "@", "r", "e", "v", "e", "r", "s", "e">>, <<"|", "@", "r", "e", "v", "e", "r", "s", "e", "|", "@", "r", "e", "v", "e", "r", "s", "e">>, <<"|", "@", "n", "o", "s", "u", "c", "h">>, <<"|", "@", "n", "o", "s", "u", "c", "h", "|", "@", "r", "e", "v", "e", "r", "s", "e">>}

ChainedModifierPaths == {p \o m : p \in ChainBases, m \in ModifierChains}

\* Keys written with an escape.
EscapedPaths == {<<"m", "y", "\\", ".", "k", "e", "y">>, <<"m", "y", "\\", "*", "k", "e", "y">>, <<"m", "y", "-", "k", "e", "y">>, <<"a", "\\", ".", "b">>, <<"f", "a", "v", "\\", ".", "m", "o", "v", "i", "e">>}

\* Keys with a wildcard.
WildPaths == {<<"?">>, <<"a", "*">>, <<"*">>, <<"z", "*">>, <<"f", "*">>, <<"n", "a", "*", ".", "l", "a", "s", "t">>, <<"a", "*", ".", "0">>, <<"c", "h", "i", "l", "d", "*", ".", "2">>, <<"m", "y", "?", "k", "e", "y">>}

\* The lines of the document as a sequence.
LinePaths == {<<".", ".", "#">>, <<".", ".", "0">>, <<".", ".", "1">>, <<".", ".", "2">>}

Paths ==
  PlainPaths \cup CountPaths \cup QueryPaths \cup ReadmePaths \cup ModifierPaths
  \cup ChainedModifierPaths \cup EscapedPaths \cup WildPaths \cup LinePaths
  \cup {<<>>} \cup ComparePaths

\* The start offsets of a mapping's iteration.
Ords == 0..2

-----------------------------------------------------------------------------
(* The state machine: a caller holds a document, registers modifiers,    *)
(* asks for a path, and asks the Result it got for further paths.          *)
(*   yaml       the document text                                          *)
(*   modifiers  the registry: name -> function                             *)
(*   path       the path of the last call                                  *)
(*   trail      the paths asked so far, in order                           *)
(*   result     the Result of the last call (the boolean after Valid)      *)
(*   calls      the calls an iteration has made of its iterator, in order: *)
(*              [key, value, more], more being what the iterator returned  *)
(*   pc         "start", then "get" (after Get), "parse" (after Parse),    *)
(*              "many" (after GetMany), "each" (after ForEach), "lines"    *)
(*              (after ForEachLine), "valid" (after Valid), "less" (after  *)
(*              Less), "match" (after matchPattern); "panic" once a call   *)
(*              has panicked                                               *)

\* The most calls of one chain.
MaxChain == 3

\* The one-component paths of the chained calls.
ChainPaths == {<<"a">>, <<"b">>, <<"c">>}

Env(o) == [mods |-> modifiers, ord |-> o]

Init ==
  /\ yaml \in Docs
  /\ modifiers = BuiltinModifiers
  /\ path = <<>>
  /\ trail = <<>>
  /\ result = ZeroResult
  /\ calls = <<>>
  /\ pc = "start"

\* AddModifier replacing the registry by the one entry.
DoAddModifierAlone(name, fn) ==
  /\ pc = "start"
  /\ modifiers' = [n \in {name} |-> fn]
  /\ modifiers' # modifiers
  /\ UNCHANGED <<yaml, path, trail, result, pc, calls>>

\* AddModifier(name, fn)
DoAddModifier(name, fn) ==
  /\ pc = "start"
  /\ modifiers' = [n \in DOMAIN modifiers \cup {name} |->
                     IF n = name THEN fn ELSE modifiers[n]]
  /\ modifiers' # modifiers
  /\ UNCHANGED <<yaml, path, trail, result, pc, calls>>

\* result = Get(yaml, p)
DoGet(p) ==
  /\ pc = "start"
  /\ \E o \in Ords : result' = Get(yaml, p, Env(o))
  /\ path' = p
  /\ trail' = <<p>>
  /\ pc' = IF result' = Panic THEN "panic" ELSE "get"
  /\ UNCHANGED <<yaml, modifiers, calls>>

\* result = Parse(yaml)
DoParse ==
  /\ pc = "start"
  /\ result' = Parse(yaml)
  /\ path' = <<>>
  /\ trail' = <<>>
  /\ pc' = "parse"
  /\ UNCHANGED <<yaml, modifiers, calls>>

\* result = Valid(yaml): the boolean returned
DoValid ==
  /\ pc = "start"
  /\ result' = Valid(yaml)
  /\ pc' = "valid"
  /\ UNCHANGED <<yaml, modifiers, path, trail, calls>>

\* result = a.Less(b, cs): the boolean returned; calls holds the call
\* with its receiver as key, its argument as value and the flag as more.
DoLess(a, b, cs) ==
  /\ pc = "start"
  /\ result' = Less(a, b, cs)
  /\ calls' = <<Call(a, b, cs)>>
  /\ pc' = "less"
  /\ UNCHANGED <<yaml, modifiers, path, trail>>

\* result = matchPattern(str, pattern): the boolean returned; trail holds
\* the two texts.
DoMatch(str, pattern) ==
  /\ pc = "start"
  /\ result' = matchPattern(str, pattern)
  /\ trail' = <<str, pattern>>
  /\ pc' = "match"
  /\ UNCHANGED <<yaml, modifiers, path, calls>>

\* result = result.Get(p)
DoResultGet(p) ==
  /\ pc \in {"get", "parse"}
  /\ Len(trail) < MaxChain
  /\ \E o \in Ords : result' = ResultGet(result, p, Env(o))
  /\ path' = p
  /\ trail' = Append(trail, p)
  /\ pc' = IF result' = Panic THEN "panic" ELSE pc
  /\ UNCHANGED <<yaml, modifiers, calls>>

\* result = GetMany(yaml, ps...)
DoGetMany(ps) ==
  /\ pc = "start"
  /\ \E o \in Ords : result' = GetMany(yaml, ps, Env(o))
  /\ path' = <<>>
  /\ trail' = ps
  /\ pc' = IF result' = Panic THEN "panic" ELSE "many"
  /\ UNCHANGED <<yaml, modifiers, calls>>

\* result.ForEach(iterator)
DoForEach(iterator) ==
  /\ pc \in {"get", "parse"}
  /\ \E o \in Ords : calls' = ForEach(result, iterator, o)
  /\ pc' = "each"
  /\ UNCHANGED <<yaml, modifiers, path, trail, result>>

\* ForEachLine(yaml, iterator)
DoForEachLine(iterator) ==
  /\ pc = "start"
  /\ calls' = ForEachLine(yaml, iterator)
  /\ pc' = "lines"
  /\ UNCHANGED <<yaml, modifiers, path, trail, result>>

\* One call on a document, with the modifiers of the package.
Next == \E p \in Paths : DoGet(p)

Spec == Init /\ [][Next]_vars

\* The names a caller registers functions under: a new name and two names
\* of the package.
RegNames == {NTest, NThis, NReverse}

\* @name as the whole path and after a pipe.
RegBases == {<<"a">>, <<"c", "h", "i", "l", "d", "r", "e", "n">>}

RegistryPaths ==
  {<<"@">> \o n : n \in RegNames}
  \cup {p \o <<"|", "@">> \o n : p \in RegBases, n \in RegNames}

\* Registrations, then one call with a pipe or a modifier.
\* Modifiers with an argument, alone and in a chain (test is registered as a
\* function that returns its argument).
ArgPaths == {<<"a", "|", "@", "t", "e", "s", "t", ":", "x">>, <<"a", "|", "@", "t", "e", "s", "t", ":", "x", "|", "@", "r", "e", "v", "e", "r", "s", "e">>, <<"a", "|", "@", "r", "e", "v", "e", "r", "s", "e", "|", "@", "t", "e", "s", "t", ":", "x">>}

NextMod ==
  \/ \E n \in RegNames, fn \in CustomFns : DoAddModifier(n, fn)
  \/ \E p \in ModifierPaths \cup RegistryPaths \cup ArgPaths : DoGet(p)

SpecMod == Init /\ [][NextMod]_vars

\* Chains of calls with one-component paths.
NextChain ==
  \/ \E p \in ChainPaths : DoGet(p)
  \/ DoParse
  \/ \E p \in ChainPaths : DoResultGet(p)

SpecChain == Init /\ [][NextChain]_vars

\* The most paths of a generated call of GetMany.
MaxMany == 2

\* The paths of the generated calls of GetMany: scalars, a collection, a
\* missing key.
ManyPaths == {<<"a", "g", "e">>, <<"a">>, <<"c">>, <<"z">>}

\* The calls of the test and of the example, and the generated ones.
ManyLists ==
  {<<<<"n", "a", "m", "e", ".", "f", "i", "r", "s", "t">>, <<"a", "g", "e">>, <<"c", "h", "i", "l", "d", "r", "e", "n", ".", "0">>>>,
   <<<<"n", "a", "m", "e", ".", "f", "i", "r", "s", "t">>, <<"n", "o", "n", "e", "x", "i", "s", "t", "e", "n", "t">>, <<"a", "g", "e">>>>}
  \cup UNION {[1..n -> ManyPaths] : n \in 1..MaxMany}

\* The paths whose Result is iterated over.
EachPaths == {<<"c", "h", "i", "l", "d", "r", "e", "n">>, <<"n", "a", "m", "e">>, <<"a", "g", "e">>, <<"a">>, <<"b">>, <<"c">>, <<"z">>}

\* The most calls after which an iterator of the model returns false.
MaxStop == 3

Iterators == 0..MaxStop

\* GetMany, iteration over a Result, iteration over the lines.
NextApi ==
  \/ \E p \in EachPaths : DoGet(p)
  \/ DoParse
  \/ \E ps \in ManyLists : DoGetMany(ps)
  \/ \E it \in Iterators : DoForEach(it)
  \/ \E it \in Iterators : DoForEachLine(it)
  \/ DoValid

SpecApi == Init /\ [][NextApi]_vars

\* Registrations, then any of the calls that read: the paths and the lists
\* of paths of these calls.
FramePaths == {<<"a">>, <<"b", "|", "@", "k", "e", "y", "s">>, <<"a", "|", "@", "t", "e", "s", "t">>}
FrameLists == {<<<<"n", "a", "m", "e", ".", "f", "i", "r", "s", "t">>, <<"a", "g", "e">>>>}

NextFrame ==
  \/ DoAddModifier(NTest, "echoArg")
  \/ \E p \in FramePaths : DoGet(p)
  \/ DoParse
  \/ \E ps \in FrameLists : DoGetMany(ps)
  \/ DoForEach(0)
  \/ DoForEachLine(0)
  \/ DoValid

SpecFrame == Init /\ [][NextFrame]_vars

\* The longest generated text of a String operand of Less.
MaxStr == 2

\* The bytes of the String operands: both cases of a letter, a letter after
\* it, and a byte between the upper-case and the lower-case letters.
LessBytes == {"a", "A", "B", "_"}

\* The operands of Less: Results of the six Types.
LessOperands ==
  {MkResult("String", w, w, 0) :
     w \in UNION {[1..n -> LessBytes] : n \in 0..MaxStr}}
  \cup {MkResult("Number", Itoa(n), <<>>, n) : n \in {0 - 1, 0, 2, 10, 20}}
  \cup {ZeroResult,
        MkResult("Null", <<"n", "u", "l", "l">>, <<>>, 0),
        MkResult("True", <<"t", "r", "u", "e">>, <<>>, 0),
        MkResult("False", <<"f", "a", "l", "s", "e">>, <<>>, 0),
        MkResult("YAML", <<"[", "1", "]">>, <<>>, 0),
        MkResult("YAML", <<"[", "B", "]">>, <<>>, 0),
        MkResult("YAML", <<"[", "a", "]">>, <<>>, 0)}

\* A caller of a function that reads no document.
InitCall ==
  /\ yaml = DocReadme
  /\ modifiers = BuiltinModifiers
  /\ path = <<>>
  /\ trail = <<>>
  /\ result = ZeroResult
  /\ calls = <<>>
  /\ pc = "start"

NextLess == \E a \in LessOperands, b \in LessOperands, cs \in BOOLEAN : DoLess(a, b, cs)

SpecLess == InitCall /\ [][NextLess]_vars

\* The longest text and the longest pattern given to the matcher.
MaxPat == 3

\* The texts over two bytes, and the patterns over these, * and ?.
MatchTexts == UNION {[1..n -> {"a", "b"}] : n \in 0..MaxPat}
MatchPatterns == UNION {[1..n -> {"a", "b", "*", "?"}] : n \in 0..MaxPat}

NextMatch == \E str \in MatchTexts, pattern \in MatchPatterns : DoMatch(str, pattern)

\* A caller matching a text against a pattern.
SpecMatch == InitCall /\ [][NextMatch]_vars

-----------------------------------------------------------------------------
(* What a document holds, read off the tree the parser builds.             *)

ValidDoc == ~Unmarshal(yaml).err
Tree == Unmarshal(yaml).v

\* The components of a dotted path.
Comps(p) == IF p = <<>> THEN <<>> ELSE Split(p, ".")

IsIndexSeg(s) == AllDigits(s)
IsKeySeg(s) == s # <<>> /\ \A i \in 1..Len(s) : \E j \in 1..Len(Lower) : Lower[j] = s[i]
IsPlain(comps) == \A i \in 1..Len(comps) : IsKeySeg(comps[i]) \/ IsIndexSeg(comps[i])

\* The walk of plain keys and indices down a tree: st is "ok" with the
\* value reached, "fail" at a key missing from a mapping, an index applied
\* to a mapping, an index outside a sequence, or a key or index applied to
\* a scalar, and "project" at a key applied to a sequence.
RECURSIVE RefWalk(_, _)
RefWalk(v, comps) ==
  IF comps = <<>> THEN [st |-> "ok", v |-> v]
  ELSE IF v.t = "map"
  THEN IF IsKeySeg(comps[1]) /\ HasKey(v, comps[1])
       THEN RefWalk(Lookup(v, comps[1]), Tail(comps))
       ELSE [st |-> "fail", v |-> NullV]
  ELSE IF v.t = "seq"
  THEN IF ~IsIndexSeg(comps[1]) THEN [st |-> "project", v |-> NullV]
       ELSE IF DigitsVal(comps[1]) < Len(v.kids)
       THEN RefWalk(v.kids[DigitsVal(comps[1]) + 1].v, Tail(comps))
       ELSE [st |-> "fail", v |-> NullV]
  ELSE [st |-> "fail", v |-> NullV]

IsNullResult(r) == r.Type = "Null" /\ ~Exists(r)

\* Two results are both non-existent, or both existent with the same Type
\* and the same value.
Agree(r1, r2) ==
  \/ ~Exists(r1) /\ ~Exists(r2)
  \/ Exists(r1) /\ Exists(r2) /\ r1.Type = r2.Type /\ Value(r1) = Value(r2)

-----------------------------------------------------------------------------
(* C1..C5: panics, rejected documents, missing steps, chains, counts.      *)

\* C1: for every document text and every path text, Get (and Result.Get
\* built on it) returns a Result and never panics.
C1_NeverPanics == result.Type # "panic" /\ pc # "panic"

UsesComplexSyntax(p) == ContainsAny(p, {"*", "?", "|", "@"}) \/ Contains(p, <<"#", "(">>)

C3_MissingIsNull ==
  (pc = "get" /\ IsPlain(Comps(path)) /\ ValidDoc /\ RefWalk(Tree, Comps(path)).st = "fail")
    => IsNullResult(result)

\* C4: in a valid document, Get(D, "a.b.c"), Get(D, "a").Get("b").Get("c")
\* and Parse(D).Get("a").Get("b").Get("c") are all non-existent, or all
\* existent with the same Type and the same value.
C4_ChainEquivalence ==
  (pc \in {"get", "parse"} /\ Len(trail) = 3 /\ IsPlain(trail) /\ ValidDoc)
    => Agree(result, Get(yaml, Join(trail, <<".">>), Env(0)))

\* C5: in a valid document, p.# (and # at the root) is the Number of
\* elements of the sequence p resolves to, of keys of the mapping, and 0
\* for a scalar.
C5_Count ==
  \A pre \in {<<>>} \cup {Comps(q) : q \in PlainPaths} :
    (/\ pc = "get" /\ IsPlain(pre)
     /\ path = Join(Append(pre, <<"#">>), <<".">>)
     /\ ValidDoc /\ RefWalk(Tree, pre).st = "ok")
      => LET v == RefWalk(Tree, pre).v
         IN /\ result.Type = "Number"
            /\ result.Num = IF v.t \in {"seq", "map"} THEN Len(v.kids) ELSE 0

-----------------------------------------------------------------------------
(* C6..C8: the projection after a count, and queries.                      *)

\* The value of a sub-path of plain keys and indices under each element, in
\* order, for the elements where it is there and not null.
RECURSIVE RefProject(_, _)
RefProject(items, sub) ==
  IF items = <<>> THEN <<>>
  ELSE LET w == RefWalk(items[1], sub)
       IN (IF w.st = "ok" /\ w.v.t # "null" THEN <<w.v>> ELSE <<>>)
          \o RefProject(Tail(items), sub)

QuerySpecs ==
  {[text |-> <<"b", "=", "=", "\"", "x", "\"">>, key |-> <<"b">>, op |-> "eq", val |-> <<"x">>, num |-> 0],
   [text |-> <<"b", "!", "=", "\"", "x", "\"">>, key |-> <<"b">>, op |-> "ne", val |-> <<"x">>, num |-> 0],
   [text |-> <<"c", ">", "1">>, key |-> <<"c">>, op |-> "gt", val |-> <<>>, num |-> 1],
   [text |-> <<"c", "<", "=", "1">>, key |-> <<"c">>, op |-> "le", val |-> <<>>, num |-> 1],
   [text |-> <<"b", "%", "\"", "y", "*", "\"">>, key |-> <<"b">>, op |-> "prefix", val |-> <<"y">>, num |-> 0],
   [text |-> <<"l", "a", "s", "t", "=", "=", "\"", "M", "u", "r", "p", "h", "y", "\"">>, key |-> <<"l", "a", "s", "t">>, op |-> "eq", val |-> <<"M", "u", "r", "p", "h", "y">>, num |-> 0],
   [text |-> <<"a", "g", "e", ">", "4", "5">>, key |-> <<"a", "g", "e">>, op |-> "gt", val |-> <<>>, num |-> 45],
   [text |-> <<"f", "i", "r", "s", "t", "%", "\"", "D", "*", "\"">>, key |-> <<"f", "i", "r", "s", "t">>, op |-> "prefix", val |-> <<"D">>, num |-> 0]}

ArrNames == {<<"a">>, <<"f", "r", "i", "e", "n", "d", "s">>}
KeyNames == {<<"b">>, <<"c">>, <<"f", "i", "r", "s", "t">>, <<"l", "a", "s", "t">>}

\* arr.#(q), arr.#(q)#, and either followed by .k
QueryPath(arr, qs, multi, k) ==
  arr \o <<".", "#", "(">> \o qs.text \o <<")">> \o (IF multi THEN <<"#">> ELSE <<>>)
  \o (IF k = <<>> THEN <<>> ELSE <<".">> \o k)

\* The paths arr.#(q).k and arr.#(q) (multi: arr.#(q)#.k and arr.#(q)#), each
\* with what it is made of.
MultiCases ==
  {[arr |-> arr, qs |-> qs, k |-> k, path |-> QueryPath(arr, qs, TRUE, k)] :
     arr \in ArrNames, qs \in QuerySpecs, k \in KeyNames \cup {<<>>}}
FirstCases ==
  {[arr |-> arr, qs |-> qs, k |-> k, path |-> QueryPath(arr, qs, FALSE, k)] :
     arr \in ArrNames, qs \in QuerySpecs, k \in KeyNames \cup {<<>>}}

\* The text a scalar operand is compared as.
RefText(v) ==
  CASE v.t = "null" -> <<"<", "n", "i", "l", ">">>
    [] v.t = "num" -> Itoa(v.n)
    [] v.t = "str" -> v.s
    [] OTHER -> Sprint(v)

\* The element satisfies the predicate.
RefSat(e, qs) ==
  LET o == IF e.t = "map" /\ HasKey(e, qs.key) THEN Lookup(e, qs.key) ELSE NullV
  IN CASE qs.op = "eq" -> RefText(o) = qs.val
       [] qs.op = "ne" -> RefText(o) # qs.val
       [] qs.op = "gt" -> o.t = "num" /\ o.n > qs.num
       [] qs.op = "le" -> o.t = "num" /\ o.n <= qs.num
       [] OTHER -> HasPrefix(RefText(o), qs.val)

RefSelect(items, qs) == SelectSeq(items, LAMBDA e : RefSat(e, qs))

\* The sequence arr of the document, when there is one.
HasArr(arr) == ValidDoc /\ Tree.t = "map" /\ HasKey(Tree, arr) /\ Lookup(Tree, arr).t = "seq"
ArrItems(arr) == Items(Lookup(Tree, arr))

\* The same from one reading of the document: [ok, items].
ArrOf(arr) ==
  LET d == Unmarshal(yaml)
  IN IF ~d.err /\ d.v.t = "map" /\ HasKey(d.v, arr) /\ Lookup(d.v, arr).t = "seq"
     THEN [ok |-> TRUE, items |-> Items(Lookup(d.v, arr))]
     ELSE [ok |-> FALSE, items |-> <<>>]

\* C7: arr.#(q)#.k is the sequence, in array order, of the k values of
\* exactly the elements of arr that satisfy q (those without k left out),
\* and arr.#(q)# is the sequence of exactly the elements that satisfy q.
C7_QueryMulti ==
  \A c \in MultiCases :
    (pc = "get" /\ path = c.path)
      => LET a == ArrOf(c.arr)
             sel == RefSelect(a.items, c.qs)
         IN a.ok => /\ result.Type = "YAML"
                    /\ Value(result) = SeqV(IF c.k = <<>> THEN sel
                                             ELSE RefProject(sel, <<c.k>>))

\* Two elements satisfy b=="x" and one of the two has no c.
C7_Witness ==
  /\ pc = "get" /\ path = <<"a", ".", "#", "(", "b", "=", "=", "\"", "x", "\"", ")", "#", ".", "c">>
  /\ yaml = SeqDoc(<<<<<<"b", ":", " ", "x">>, <<"c", ":", " ", "1">>>>, <<<<"b", ":", " ", "x">>>>>>)
  /\ Value(result) = SeqV(<<NumV(1)>>)

\* C8: when some element satisfies q, the first element of
\* Get(D, "arr.#(q)#").Array() is Get(D, "arr.#(q)"), and Get(D, "arr.#(q).k")
\* is the k value of the first element, in array order, that satisfies q.
C8_QueryFirst ==
  \A c \in FirstCases :
    (pc = "get" /\ path = c.path)
      => LET a == ArrOf(c.arr)
             sel == RefSelect(a.items, c.qs)
             all == Array(Get(yaml, QueryPath(c.arr, c.qs, TRUE, <<>>), Env(0)))
         IN (a.ok /\ sel # <<>>)
              => IF c.k = <<>>
                 THEN Len(all) > 0 /\ all[1] = result /\ Value(result) = sel[1]
                 ELSE IF RefProject(<<sel[1]>>, <<c.k>>) = <<>> THEN IsNullResult(result)
                 ELSE Exists(result) /\ Value(result) = Lookup(sel[1], c.k)

\* The second element is the first that satisfies b!="x".
C8_Witness ==
  /\ pc = "get" /\ path = <<"a", ".", "#", "(", "b", "!", "=", "\"", "x", "\"", ")">>
  /\ yaml = SeqDoc(<<<<<<"b", ":", " ", "x">>, <<"c", ":", " ", "1">>>>, <<<<"b", ":", " ", "y">>, <<"c", ":", " ", "2">>>>>>)
  /\ Value(result) = MapV(<<[k |-> <<"b">>, v |-> StrV(<<"y">>)], [k |-> <<"c">>, v |-> NumV(2)]>>)

-----------------------------------------------------------------------------
(* C9, C10: a query inside a query, and a path after a modifier.           *)

NestedQueryPath == <<"f", "r", "i", "e", "n", "d", "s", ".", "#", "(", "n", "e", "t", "s", 
      ".", "#", "(", "=", "=", "\"", "f", "b", "\"", ")", ")", "#", 
      ".", "f", "i", "r", "s", "t">>
NestedSubPath == <<"n", "e", "t", "s", ".", "#", "(", "=", "=", "\"", "f", "b", "\"", ")">>

\* The elements on which the sub-path gives an existent Result.
SubPathSelect(items, sub) ==
  SelectSeq(items, LAMBDA e : Exists(traversePath(e, parsePath(sub), <<>>, Env(0))))

\* C9: friends.#(nets.#(=="fb"))#.first selects exactly the elements on which
\* the sub-path nets.#(=="fb") gives an existent Result; for the document of
\* the README these are Dale and Roger.
C9_NestedQuery ==
  (pc = "get" /\ path = NestedQueryPath /\ HasArr(<<"f", "r", "i", "e", "n", "d", "s">>))
    => /\ Value(result)
            = SeqV(RefProject(SubPathSelect(ArrItems(<<"f", "r", "i", "e", "n", "d", "s">>), NestedSubPath), <<<<"f", "i", "r", "s", "t">>>>))
       /\ yaml = DocReadme => Value(result) = SeqV(<<StrV(<<"D", "a", "l", "e">>), StrV(<<"R", "o", "g", "e", "r">>)>>)

\* The paths p|@reverse|0 of the model, by p.
PipedIndexPaths == {<<"c", "h", "i", "l", "d", "r", "e", "n">>, <<"a">>}

\* C10: a segment after a modifier that does not start with @ is a path
\* on the text the modifier gave: p|@reverse|0 is Get(reversed text of p, "0"),
\* and children|@reverse|0 is the last child.
C10_PathAfterModifier ==
  \A p \in PipedIndexPaths :
    (pc = "get" /\ path = p \o <<"|", "@", "r", "e", "v", "e", "r", "s", "e", "|", "0">> /\ ValidDoc)
      => LET out == modReverse(Get(yaml, p, Env(0)).Raw, <<>>)
         IN /\ Agree(result, Get(out, <<"0">>, Env(0)))
            /\ yaml = DocReadme /\ p = <<"c", "h", "i", "l", "d", "r", "e", "n">>
                 => result.Type = "String" /\ result.Str = <<"J", "a", "c", "k">>

-----------------------------------------------------------------------------
(* C11..C13: chains of modifiers, names outside the registry, registration. *)

PipeReverse == <<"|", "@", "r", "e", "v", "e", "r", "s", "e">>

\* The values of the elements of t.Array().
ArrayValues(t) == With(Array(t), LAMBDA rs : [i \in 1..Len(rs) |-> Value(rs[i])])

\* C11: the modifiers of a chain are applied from left to right, each to the
\* text the one before it gave: for a sequence arr of a valid document,
\* arr|@reverse has the elements of arr in reversed order and
\* arr|@reverse|@reverse has them in the order of arr.
C11_ReverseChain ==
  \A arr \in ChainBases :
    (pc = "get" /\ path \in {arr \o PipeReverse, arr \o PipeReverse \o PipeReverse})
      => LET a == ArrOf(arr)
             plain == Array(Get(yaml, arr, Env(0)))
             back == Array(result)
         IN a.ok => IF path = arr \o PipeReverse
                    THEN /\ back = Reverse(plain)
                         /\ ArrayValues(result) = Reverse(a.items)
                    ELSE /\ back = plain
                         /\ ArrayValues(result) = a.items

\* children|@reverse|@reverse gives the children in the order of the document.
C11_Witness ==
  /\ pc = "get" /\ yaml = DocReadme
  /\ path = <<"c", "h", "i", "l", "d", "r", "e", "n", "|", "@", "r", "e", "v", "e", "r", "s", "e", "|", "@", "r", "e", "v", "e", "r", "s", "e">>
  /\ ArrayValues(result) = <<StrV(<<"S", "a", "r", "a">>), StrV(<<"A", "l", "e", "x">>), StrV(<<"J", "a", "c", "k">>)>>

PipeNoSuch == <<"|", "@", "n", "o", "s", "u", "c", "h">>

\* C12: a modifier name outside the registry is the identity of the chain:
\* in a valid document p|@nosuch is Get(D, p), and p|@nosuch|@reverse still
\* applies the segment that follows and is Get(D, p|@reverse).
C12_UnknownModifier ==
  \A p \in ChainBases :
    (pc = "get" /\ ValidDoc)
      => /\ path = p \o PipeNoSuch => Agree(result, Get(yaml, p, Env(0)))
         /\ path = p \o PipeNoSuch \o PipeReverse
              => \E o \in Ords : Agree(result, Get(yaml, p \o PipeReverse, Env(o)))

\* The Result of the function fn applied to a text: what it returns, parsed.
Applied(fn, text) ==
  With(Unmarshal(CallModifier(fn, text, <<>>, 0)), LAMBDA d :
    valueToResult(IF d.err THEN NullV ELSE d.v))

\* C13: after any registrations, @name as the whole path applies the function
\* last registered under name to the document, and p|@name applies it to the
\* text of the value at p; this holds for the names of the package as well.
C13_LastRegistered ==
  \A n \in RegNames :
    (pc = "get" /\ n \in DOMAIN modifiers)
      => LET d == Unmarshal(yaml)
         IN ~d.err
              => /\ path = <<"@">> \o n => result = Applied(modifiers[n], yaml)
                 /\ \A p \in RegBases :
                      (path = p \o <<"|", "@">> \o n /\ RefWalk(d.v, <<p>>).st = "ok")
                        => result = Applied(modifiers[n],
                                            valueToResult(RefWalk(d.v, <<p>>).v).Raw)

-----------------------------------------------------------------------------
(* C14..C16: GetMany, ForEach, ForEachLine.                                *)

\* C14: for a valid document, GetMany(D, p1, ..., pn).Array() has n elements,
\* and its i-th element has the String() of Get(D, pi), also when pi is
\* missing or resolves to a collection.
C14_GetMany ==
  (pc = "many" /\ ValidDoc)
    => LET arr == Array(result)
       IN /\ Len(arr) = Len(trail)
          /\ \A i \in 1..Len(trail) :
               i <= Len(arr) => String(arr[i]) = String(Get(yaml, trail[i], Env(0)))

\* The calls stop as the iterator asks: every call but the last returned
\* true, and the n entries were all passed unless the last call returned false.
StopsRight(n) ==
  /\ Len(calls) <= n
  /\ \A i \in 1..(Len(calls) - 1) : calls[i].more
  /\ Len(calls) < n => Len(calls) > 0 /\ ~calls[Len(calls)].more

\* C15: ForEach calls the iterator never for a non-existent Result, once with
\* (Null, self) for a scalar, with (Number i, element) for the elements of a
\* sequence in index order, with (String key, value) once for each key of a
\* mapping, and not again once the iterator has returned false.
C15_ForEach ==
  pc = "each"
    => IF ~Exists(result) THEN calls = <<>>
       ELSE LET d == IF result.Type = "YAML" THEN Unmarshal(result.Raw)
                     ELSE OkV(Value(result))
            IN ~d.err
                 => IF d.v.t \in {"map", "omap"}
                    THEN /\ StopsRight(Len(d.v.kids))
                         /\ \A i \in 1..Len(calls) :
                              /\ calls[i].key.Type = "String"
                              /\ HasKey(d.v, calls[i].key.Str)
                              /\ calls[i].value = valueToResult(Lookup(d.v, calls[i].key.Str))
                         /\ \A i, j \in 1..Len(calls) :
                              i # j => calls[i].key.Str # calls[j].key.Str
                    ELSE IF d.v.t = "seq"
                    THEN /\ StopsRight(Len(d.v.kids))
                         /\ \A i \in 1..Len(calls) :
                              /\ calls[i].key.Type = "Number"
                              /\ calls[i].key.Num = i - 1
                              /\ calls[i].value = valueToResult(d.v.kids[i].v)
                    ELSE /\ Len(calls) = 1
                         /\ calls[1].key.Type = "Null"
                         /\ calls[1].value = result

\* The lines of a text that are not empty once trimmed, trimmed, in order.
NonEmptyLines(y) ==
  With(Split(y, NL), LAMBDA lines :
    SelectSeq([i \in 1..Len(lines) |-> TrimSpace(lines[i])], LAMBDA l : l # <<>>))

\* C16: ForEachLine calls fn once for each line that is not empty after
\* trimming, in line order, with a Result of Type YAML whose Raw is the
\* trimmed line, and passes no further line once fn has returned false.
C16_ForEachLine ==
  pc = "lines"
    => LET lines == NonEmptyLines(yaml)
       IN /\ StopsRight(Len(lines))
          /\ \A i \in 1..Len(calls) :
               calls[i].value.Type = "YAML" /\ calls[i].value.Raw = lines[i]

\* The README document starts with an empty line; fn returned false at the
\* second line it was passed.
C16_Witness ==
  /\ pc = "lines" /\ yaml = DocReadme /\ Len(calls) = 2
  /\ calls[1].value.Raw = <<"n", "a", "m", "e", ":">> /\ calls[1].more
  /\ calls[2].value.Raw = <<"f", "i", "r", "s", "t", ":", " ", "T", "o", "m">> /\ ~calls[2].more

-----------------------------------------------------------------------------
(* C17..C20: the lines of a document, escapes, wildcards.                  *)

ParsedLines(y) == SelectSeq(NonEmptyLines(y), LAMBDA l : ~Unmarshal(l).err)

RECURSIVE Unescape(_)
Unescape(p) ==
  IF p = <<>> THEN <<>>
  ELSE IF p[1] = BSL THEN (IF Len(p) > 1 THEN <<p[2]>> \o Unescape(SubSeq(p, 3, Len(p))) ELSE <<>>)
  ELSE <<p[1]>> \o Unescape(Tail(p))

\* C18: a byte after a backslash is part of the key and is neither a
\* separator nor an operator: a path of one key with escaped bytes selects
\* the value of the root mapping at the key so spelled, and nothing else.
C18_EscapedLiteral ==
  (pc = "get" /\ path \in EscapedPaths /\ ValidDoc /\ Tree.t = "map")
    => LET key == Unescape(path)
       IN IF HasKey(Tree, key)
          THEN Agree(result, valueToResult(Lookup(Tree, key)))
          ELSE IsNullResult(result)

\* The values of a mapping at the keys a pattern matches, in key order.
MatchingValues(v, pattern) ==
  LET kids == SelectSeq(v.kids, LAMBDA e : deepMatch(e.k, pattern))
  IN [i \in 1..Len(kids) |-> kids[i].v]

\* How many times each element occurs in a sequence.
SeqBag(s) ==
  [x \in {s[i] : i \in 1..Len(s)} |-> Cardinality({i \in 1..Len(s) : s[i] = x})]

C20_WildcardNoMatch ==
  (pc = "get" /\ path \in WildPaths /\ ValidDoc /\ Tree.t = "map"
     /\ MatchingValues(Tree, Comps(path)[1]) = <<>>)
    => IsNullResult(result)

-----------------------------------------------------------------------------
(* C21..C25: array and object tests, Valid, the empty path, Less, the fast *)
(* path against the traversal.                                             *)

\* C21: a path of keys and indices that resolves to a sequence gives a Result
\* that is an array and no object, one that resolves to a mapping gives a
\* Result that is an object and no array, and no Result is both.
C21_ArrayXorObject ==
  (pc = "get" /\ ValidDoc)
    => /\ ~(IsArray(result) /\ IsObject(result))
       /\ (path # <<>> /\ IsPlain(Comps(path)))
            => LET w == RefWalk(Tree, Comps(path))
               IN /\ (w.st = "ok" /\ w.v.t = "seq")
                       => IsArray(result) /\ ~IsObject(result)
                  /\ (w.st = "ok" /\ w.v.t = "map")
                       => IsObject(result) /\ ~IsArray(result)

\* C22: Valid(text) is true exactly when the text is not empty or all white
\* space and the parser accepts it; the call leaves the document and the
\* registry as they were, and the @valid modifier on the same text answers
\* true exactly when Valid does.
C22_Valid ==
  pc = "valid"
    => /\ result = (TrimSpace(yaml) # <<>> /\ ValidDoc)
       /\ modValid(yaml, <<>>) = (IF result THEN <<"t", "r", "u", "e">> ELSE <<"f", "a", "l", "s", "e">>)
       /\ (Get(yaml, <<"@", "v", "a", "l", "i", "d">>, Env(0)).Type = "True") = result
       /\ modifiers = BuiltinModifiers /\ yaml \in Docs

\* The empty text: the parser accepts it and Valid answers false.
C22_Witness == pc = "valid" /\ yaml = DocEmpty /\ ValidDoc /\ result = FALSE

\* C23: for every document text, accepted by the parser or not, Get with the
\* empty path returns Type YAML, the text itself as Raw, and Index 0.
C23_EmptyPath ==
  (pc = "get" /\ path = <<>>)
    => result.Type = "YAML" /\ result.Raw = yaml /\ result.Index = 0

\* A text the parser rejects comes back as it is.
C23_Witness ==
  /\ pc = "get" /\ path = <<>> /\ yaml = DocOpenFlow /\ ~ValidDoc
  /\ result.Type = "YAML" /\ result.Raw = DocOpenFlow

\* The order of the Types that the comparison documents.
TypeOrder == <<"Null", "False", "Number", "String", "True", "YAML">>
TypePlace(type) == CHOOSE i \in 1..Len(TypeOrder) : TypeOrder[i] = type

\* A text with its letters A-Z folded to a-z.
Fold(w) == [i \in 1..Len(w) |-> LowerChar(w[i])]

\* a is smaller than b within their common Type.
SmallerWithin(a, b, cs) ==
  IF a.Type = "String"
  THEN IF cs THEN StrLess(a.Str, b.Str) ELSE StrLess(Fold(a.Str), Fold(b.Str))
  ELSE IF a.Type = "Number" THEN a.Num < b.Num
  ELSE StrLess(a.Raw, b.Raw)

\* C24: a.Less(b, cs) is true exactly when the Type of a comes before that of
\* b in Null, False, Number, String, True, YAML, or the Types are the same
\* and a is smaller within the Type; Less is irreflexive and never holds in
\* both directions.
C24_Less ==
  pc = "less"
    => LET a == calls[1].key
           b == calls[1].value
           cs == calls[1].more
       IN /\ result = (\/ TypePlace(a.Type) < TypePlace(b.Type)
                       \/ a.Type = b.Type /\ SmallerWithin(a, b, cs))
          /\ ~Less(a, a, cs)
          /\ ~(result /\ Less(b, a, cs))

\* _ is a byte between Z and a: it is after B, and before B folded to b.
C24_Witness ==
  /\ pc = "less" /\ result = TRUE
  /\ calls[1].key.Type = "String" /\ calls[1].key.Str = <<"_">>
  /\ calls[1].value.Type = "String" /\ calls[1].value.Str = <<"B">>
  /\ calls[1].more = FALSE

\* C25: in a valid document, whenever the fast scan answers a path, its
\* Result has the Type and the String() of the Result the traversal of the
\* parsed document gives for that path; where it declines, Get returns the
\* traversal's Result.
C25_FastSound ==
  (pc = "get" /\ ValidDoc /\ path # <<>> /\ ~HasPrefix(path, <<".", ".">>))
    => LET q == IF path[1] = "." THEN Tail(path) ELSE path
           fast == fastGet(yaml, q)
       IN IF fast.ok
          THEN LET tree == getFromPath(Tree, q, yaml, Env(0))
               IN fast.res.Type = tree.Type /\ String(fast.res) = String(tree)
          ELSE \E o \in Ords : result = getFromPath(Tree, q, yaml, Env(o))

-----------------------------------------------------------------------------
(* C26..C30: comparisons in queries, modifier arguments, the matcher,      *)
(* determinism, and what a call leaves unchanged.                          *)

\* The comparing predicates: the body, its key, its comparison and its
\* right value.
CompareSpecs ==
  {[text |-> <<"b", "<", "1">>, key |-> <<"b">>, op |-> "lt", val |-> <<"1">>],
   [text |-> <<"b", ">", "=", "0">>, key |-> <<"b">>, op |-> "ge", val |-> <<"0">>],
   [text |-> <<"d", "<", "9">>, key |-> <<"d">>, op |-> "lt", val |-> <<"9">>],
   [text |-> <<"d", ">", "=", "6">>, key |-> <<"d">>, op |-> "ge", val |-> <<"6">>],
   [text |-> <<"e", "<", "2">>, key |-> <<"e">>, op |-> "lt", val |-> <<"2">>],
   [text |-> <<"c", "<", "2">>, key |-> <<"c">>, op |-> "lt", val |-> <<"2">>],
   [text |-> <<"c", ">", "=", "2">>, key |-> <<"c">>, op |-> "ge", val |-> <<"2">>],
   [text |-> <<"z", "<", "1">>, key |-> <<"z">>, op |-> "lt", val |-> <<"1">>],
   [text |-> <<"c", "<", "x">>, key |-> <<"c">>, op |-> "lt", val |-> <<"x">>],
   [text |-> <<"c", ">", "=", "\"", "x", "\"">>, key |-> <<"c">>, op |-> "ge", val |-> <<"x">>],
   [text |-> <<"n", "e", "t", "s", "<", "5">>, key |-> <<"n", "e", "t", "s">>, op |-> "lt", val |-> <<"5">>],
   [text |-> <<"f", "i", "r", "s", "t", ">", "=", "0">>, key |-> <<"f", "i", "r", "s", "t">>, op |-> "ge", val |-> <<"0">>],
   [text |-> <<"a", "g", "e", "<", "=", "4", "7">>, key |-> <<"a", "g", "e">>, op |-> "le", val |-> <<"4", "7">>]}

CompareCases ==
  {[arr |-> arr, qs |-> qs,
    path |-> arr \o <<".", "#", "(">> \o qs.text \o <<")", "#">>] :
     arr \in ArrNames, qs \in CompareSpecs}

\* A scalar read as a number: [ok, n].
AsNumber(o) ==
  IF o.t = "num" THEN [ok |-> TRUE, n |-> o.n]
  ELSE IF o.t = "str" /\ ParseFloatOk(o.s) THEN [ok |-> TRUE, n |-> ParseFloatVal(o.s)]
  ELSE [ok |-> FALSE, n |-> 0]

\* The element matches: its operand and the right value are both numbers
\* and the comparison holds.
RefCompare(e, qs) ==
  LET o == AsNumber(IF e.t = "map" /\ HasKey(e, qs.key) THEN Lookup(e, qs.key) ELSE NullV)
  IN /\ o.ok /\ ParseFloatOk(qs.val)
     /\ CASE qs.op = "lt" -> o.n < ParseFloatVal(qs.val)
          [] qs.op = "le" -> o.n <= ParseFloatVal(qs.val)
          [] qs.op = "gt" -> o.n > ParseFloatVal(qs.val)
          [] OTHER -> o.n >= ParseFloatVal(qs.val)

\* C26: in a query with <, <=, > or >=, an element matches only if its
\* operand and the right value both read as numbers and the comparison
\* holds: arr.#(q)# is the sequence of exactly these elements.
C26_NumericQuery ==
  \A c \in CompareCases :
    (pc = "get" /\ path = c.path)
      => LET a == ArrOf(c.arr)
         IN a.ok => /\ result.Type = "YAML"
                    /\ Value(result) = SeqV(SelectSeq(a.items, LAMBDA e : RefCompare(e, c.qs)))

\* C27: in p|@a:arg|@b the modifier a is called with the text arg and b is
\* applied to what a returns, and in p|@a|@b:arg the modifier b is called
\* with arg: with test registered as the function that returns its argument,
\* a|@test:x|@reverse and a|@reverse|@test:x both give the String x.
C27_Arguments ==
  (/\ pc = "get" /\ path \in ArgPaths
   /\ NTest \in DOMAIN modifiers /\ modifiers[NTest] = "echoArg"
   /\ modifiers[NReverse] = "modReverse"
   /\ ValidDoc /\ Tree.t = "map" /\ HasKey(Tree, <<"a">>))
    => result.Type = "String" /\ result.Str = <<"x">>

\* The lengths of the prefixes of str that the first j bytes of the pattern
\* match: * goes on from a matched prefix to every longer one, ? and any
\* other byte go on by one byte, the other byte only if it is the same.
RECURSIVE MatchedPrefixes(_, _, _)
MatchedPrefixes(str, pattern, j) ==
  IF j = 0 THEN {0}
  ELSE LET before == MatchedPrefixes(str, pattern, j - 1)
       IN IF pattern[j] = "*" THEN {k \in 0..Len(str) : \E i \in before : i <= k}
          ELSE {i + 1 : i \in {k \in before : k < Len(str)
                                  /\ (pattern[j] = "?" \/ str[k + 1] = pattern[j])}}

\* The pattern matches the whole of str.
Matches(str, pattern) == Len(str) \in MatchedPrefixes(str, pattern, Len(pattern))

\* C28: the matcher answers true exactly when the pattern matches the whole
\* text, * standing for any run of bytes, the empty one included, ? for one
\* byte and any other byte for itself; so * matches the empty text and a
\* text without * and ? matches itself.
C28_Matcher ==
  pc = "match"
    => LET str == trail[1]
           pattern == trail[2]
       IN /\ result = Matches(str, pattern)
          /\ (str = <<>> /\ pattern = <<"*">>) => result
          /\ (str = pattern /\ ~ContainsAny(pattern, {"*", "?"})) => result

\* The * in the middle takes a run of two bytes.
C28_Witness ==
  /\ pc = "match" /\ trail = <<<<"a", "b", "a">>, <<"*", "a">>>> /\ result = TRUE

\* C29: Get is a function of the document, the path and the registry: every
\* evaluation of Get on the same three gives the same Result, whatever the
\* order in which a mapping is ranged over.
C29_Deterministic ==
  pc = "get" => \A o \in Ords : Get(yaml, path, Env(o)) = result

====
